---------------------------- MODULE Spec2Model ----------------------------
(***************************************************************************)
(* A model of the alfresco-soap-api client library: the SOAP service base  *)
(* class, the AlfrescoClient navigation methods (getCompanyHome,           *)
(* getChildren, resolvePathForNodeRef) in the revisions the repository     *)
(* carries, and the response normalisers.                                  *)
(*                                                                         *)
(* JavaScript strings are sequences of one-character strings, so that      *)
(* trim, toLowerCase, split, includes and template concatenation are       *)
(* computed rather than assumed.  The value `undefined` is the sequence    *)
(* Undef, which no string equals.                                          *)
(*                                                                         *)
(* Several specifications share the module:                                *)
(*   Spec      one AlfrescoClient driven by a sequential caller; every     *)
(*             step is one remote round trip and the code up to the next   *)
(*   SpecNorm  the response normalisers applied to bounded inputs          *)
(*   SpecSvc   one SoapService used by overlapping operations              *)
(*   SpecRef   the service methods that take a node reference, applied to  *)
(*             bounded reference strings                                   *)
(*   SpecFile  ContentService.getFileContent and                           *)
(*             getFileContentWithIntegrityCheck on one node                 *)
(*   SpecAuth  one AlfrescoClient whose authenticate() calls overlap       *)
(*   SpecPage  the example browser page: root selection, node clicks and   *)
(*             Back clicks whose children requests overlap                 *)
(***************************************************************************)
EXTENDS Integers, Sequences, FiniteSets, TLC

VARIABLES
    \* ---- AlfrescoClient and its caller (Spec) ----
    revision,    \* which getChildren of the repository is running
    ticket,      \* AlfrescoClient.ticket, 0 for null
    svc,         \* auth / repo / content SoapService fields
    pc,          \* the await the current call is suspended at, or "idle"
    op,          \* the method the caller invoked last
    callRef,     \* its nodeRef argument
    chRef,       \* getChildren's companyHomeNodeRef
    cur,         \* resolvePathForNodeRef's nodeRef at the current depth
    stack,       \* the pending resolvePathForNodeRef calls, outermost first
    resolved,    \* the path resolvePathForNodeRef returned
    sent,        \* the requests sent during the current call, in order
    faults,      \* the awaits of the current call whose remote call failed
    outcome,     \* what the last call returned or threw
    calls,       \* calls started so far
    rootLookups, \* root-lookup queries sent so far by this client
    \* ---- normaliser harness (SpecNorm) ----
    rows,        \* the raw sub-records handed to the normalisers
    normPc,      \* "in" before, then which normaliser has run
    outs,        \* shape name -> normaliser result for `rows` in that shape
    \* ---- one SoapService under overlapping operations (SpecSvc) ----
    sClient,     \* SoapService.client: the handle held, 0 for null
    sCreated,    \* handles soap.createClientAsync has produced so far
    sTicket,     \* SoapService.ticket, 0 for null
    sUsername,   \* SoapService.username is set
    sHeader,     \* handle -> the ticket of its WS-Security header, 0 for none
    sProc,       \* operation -> where it is suspended
    sUsed,       \* the handles requests have been sent through
    \* ---- service methods on reference strings (SpecRef) ----
    rParts,      \* the scheme, address and id the reference was written from
    rRef,        \* the reference string handed to the service method
    rPc,         \* "in" before, then the method that has run
    rSent,       \* the requests the method sent
    rOut,        \* what the method returned or threw
    \* ---- content retrieval of one node (SpecFile) ----
    fOp,         \* the retrieval function called
    fRef,        \* its nodeRef argument
    fNode,       \* the node details repositoryService.get answers with
    fMeta,       \* the metadata extracted from the node details
    fPc,         \* the await the call is suspended at, "done" at its end
    fSent,       \* the requests sent so far, in order
    fErrs,       \* the messages of the retrieval methods that failed, in order
    fOut,        \* what the call returned or threw
    \* ---- overlapping authenticate() calls on one client (SpecAuth) ----
    aProc,       \* authenticate() call -> the await it is suspended at
    \* ---- the example page's sidebar (SpecPage) ----
    selectedRoot,   \* useState selectedRoot, "null" for null
    nodeStack,      \* useState nodeStack
    children,       \* useState children
    currentNode,    \* useState currentNode, "null" for null
    sidebarLoading, \* useState sidebarLoading
    sidebarError,   \* useState sidebarError is not null
    inFlight,       \* the /api/children requests not yet answered
    fetches         \* requests started so far

clientVars == <<revision, ticket, svc, pc, op, callRef, chRef, cur, stack, resolved,
                sent, faults, outcome, calls, rootLookups>>
normVars == <<rows, normPc, outs>>
svcVars == <<sClient, sCreated, sTicket, sUsername, sHeader, sProc, sUsed>>
refVars == <<rParts, rRef, rPc, rSent, rOut>>
fileVars == <<fOp, fRef, fNode, fMeta, fPc, fSent, fErrs, fOut>>
authVars == <<aProc>>
pageVars == <<selectedRoot, nodeStack, children, currentNode, sidebarLoading,
              sidebarError, inFlight, fetches>>
moreVars == <<authVars, pageVars>>
extraVars == <<refVars, fileVars, moreVars>>
vars == <<clientVars, normVars, svcVars, extraVars>>

-----------------------------------------------------------------------------
(* String literals of the source and of the test inputs.                   *)
S_companyHomePath == <<"/","a","p","p",":","c","o","m","p","a","n","y","_","h","o","m","e">>
S_companyHomeChildren == <<"/","a","p","p",":","c","o","m","p","a","n","y","_","h","o","m","e","/","*">>
S_pathPrefix == <<"P","A","T","H",":","\"">>
S_quote == <<"\"">>
S_slashStar == <<"/","*">>
S_storeProtocol == <<"s","t","o","r","e","-","p","r","o","t","o","c","o","l">>
S_storeIdentifier == <<"s","t","o","r","e","-","i","d","e","n","t","i","f","i","e","r">>
S_nodeUuid == <<"n","o","d","e","-","u","u","i","d">>
S_name == <<"n","a","m","e">>
S_cmName == <<"c","m",":","n","a","m","e">>
S_type == <<"t","y","p","e">>
S_cmType == <<"c","m",":","t","y","p","e">>
S_Unknown == <<"U","n","k","n","o","w","n">>
S_unknown == <<"u","n","k","n","o","w","n">>
S_CompanyHome == <<"C","o","m","p","a","n","y"," ","H","o","m","e">>
S_companyHomeIcon == <<"c","o","m","p","a","n","y","_","h","o","m","e">>
S_cmPrefix == <<"c","m",":">>
S_schemeSep == <<":","/","/">>
S_slash == <<"/">>
S_rootSuffix == <<":","/","/","r","o","o","t">>
S_workspace == <<"w","o","r","k","s","p","a","c","e">>
S_SpacesStore == <<"S","p","a","c","e","s","S","t","o","r","e">>
S_abc123 == <<"a","b","c","-","1","2","3">>
S_colProtocol == <<"s","y","s",":","s","t","o","r","e","-","p","r","o","t","o","c","o","l">>
S_colIdentifier == <<"s","y","s",":","s","t","o","r","e","-","i","d","e","n","t","i","f","i","e","r">>
S_colUuid == <<"s","y","s",":","n","o","d","e","-","u","u","i","d">>
S_colName == <<"c","m",":","n","a","m","e">>
S_colTitle == <<"c","m",":","t","i","t","l","e">>
S_Doc == <<"D","o","c">>
S_cmContent == <<"c","m",":","c","o","n","t","e","n","t">>
S_cmFolder == <<"c","m",":","f","o","l","d","e","r">>
S_refAbc == <<"w","o","r","k","s","p","a","c","e",":","/","/","S","p","a","c","e","s","S","t","o","r","e","/","a","b","c","-","1","2","3">>
S_refDoc == <<"w","o","r","k","s","p","a","c","e",":","/","/","S","p","a","c","e","s","S","t","o","r","e","/","d","1">>
S_refTrailing == <<"w","o","r","k","s","p","a","c","e",":","/","/","S","p","a","c","e","s","S","t","o","r","e","/">>
S_d1 == <<"d","1">>
S_findNotFunction == <<"r","o","w",".","c","o","l","u","m","n","s","?",".","f","i","n","d"," ","i","s"," ","n","o","t"," ","a"," ","f","u","n","c","t","i","o","n">>
S_typeError == <<"C","a","n","n","o","t"," ","r","e","a","d"," ","p","r","o","p","e","r","t","i","e","s"," ","o","f"," ","u","n","d","e","f","i","n","e","d">>
S_refCH == <<"w","o","r","k","s","p","a","c","e",":","/","/","S","p","a","c","e","s","S","t","o","r","e","/","c","h">>
S_refCHMixed == <<" "," ","W","O","R","K","S","P","A","C","E",":","/","/","s","p","a","c","e","s","s","t","o","r","e","/","C","H"," ">>
S_pathMixed == <<" ","/","A","P","P",":","C","o","m","p","a","n","y","_","H","o","m","e","/","*"," ">>
S_refF1 == <<"w","o","r","k","s","p","a","c","e",":","/","/","S","p","a","c","e","s","S","t","o","r","e","/","f","1">>
S_refF2 == <<"w","o","r","k","s","p","a","c","e",":","/","/","S","p","a","c","e","s","S","t","o","r","e","/","f","2">>
S_refA == <<"w","o","r","k","s","p","a","c","e",":","/","/","S","p","a","c","e","s","S","t","o","r","e","/","a">>
S_refB == <<"w","o","r","k","s","p","a","c","e",":","/","/","S","p","a","c","e","s","S","t","o","r","e","/","b">>
S_refO == <<"w","o","r","k","s","p","a","c","e",":","/","/","S","p","a","c","e","s","S","t","o","r","e","/","o">>
S_refGone == <<"w","o","r","k","s","p","a","c","e",":","/","/","S","p","a","c","e","s","S","t","o","r","e","/","g","o","n","e">>
S_notARef == <<"n","o","t","-","a","-","r","e","f","e","r","e","n","c","e">>
S_ch == <<"c","h">>
S_F1 == <<"F","1">>
S_F2 == <<"F","2">>
S_A == <<"A">>
S_B == <<"B">>
S_O == <<"O">>
S_stSite == <<"s","t",":","s","i","t","e">>
S_appIcon == <<"a","p","p",":","i","c","o","n">>
S_cmParent == <<"c","m",":","p","a","r","e","n","t">>
S_cmParentAssoc == <<"c","m",":","p","a","r","e","n","t","A","s","s","o","c">>
S_parentWord == <<"p","a","r","e","n","t">>
S_assocContains == <<"c","m",":","c","o","n","t","a","i","n","s","-","p","a","r","e","n","t">>
S_rootPath == <<"/">>
S_errInvalidResolve == <<"I","n","v","a","l","i","d"," ","n","o","d","e","R","e","f"," ","p","a","s","s","e","d"," ","t","o"," ","r","e","s","o","l","v","e","P","a","t","h","F","o","r","N","o","d","e","R","e","f">>
S_errMaxDepth == <<"M","a","x"," ","r","e","c","u","r","s","i","o","n"," ","d","e","p","t","h"," ","r","e","a","c","h","e","d"," ","i","n"," ","r","e","s","o","l","v","e","P","a","t","h","F","o","r","N","o","d","e","R","e","f"," ","f","o","r"," ","n","o","d","e","R","e","f",":"," ">>
S_errFetch == <<"F","a","i","l","e","d"," ","t","o"," ","f","e","t","c","h"," ","n","o","d","e"," ","f","o","r"," ","n","o","d","e","R","e","f",":"," ">>
S_errNoParent == <<"C","a","n","n","o","t"," ","r","e","s","o","l","v","e"," ","p","a","r","e","n","t"," ","f","o","r"," ","n","o","d","e","R","e","f",":"," ">>
S_errNoName == <<"N","o","d","e"," ","h","a","s"," ","n","o"," ","n","a","m","e",":"," ">>
S_errGetChildren == <<"F","a","i","l","e","d"," ","t","o"," ","g","e","t"," ","c","h","i","l","d","r","e","n"," ","f","o","r"," ","n","o","d","e","R","e","f"," ">>
S_colonSpace == <<":"," ">>
S_errEmptyHome == <<"C","o","m","p","a","n","y"," ","H","o","m","e"," ","n","o","t"," ","f","o","u","n","d"," ","-"," ","e","m","p","t","y"," ","r","e","s","p","o","n","s","e">>
S_errHomeNoRef == <<"C","o","m","p","a","n","y"," ","H","o","m","e"," ","l","o","o","k","u","p"," ","s","u","c","c","e","e","d","e","d"," ","b","u","t"," ","n","o","d","e","R","e","f"," ","c","o","u","l","d"," ","n","o","t"," ","b","e"," ","d","e","t","e","r","m","i","n","e","d">>
S_errInvalidRef == <<"I","n","v","a","l","i","d"," ","n","o","d","e","R","e","f",":"," ">>
S_errInvalidFormat == <<"I","n","v","a","l","i","d"," ","n","o","d","e","R","e","f"," ","f","o","r","m","a","t",":"," ">>
S_errTransport == <<"E","C","O","N","N","R","E","S","E","T">>
S_errWsdl == <<"W","S","D","L"," ","l","o","a","d"," ","f","a","i","l","e","d">>
S_errLogin == <<"A","u","t","h","e","n","t","i","c","a","t","i","o","n"," ","f","a","i","l","e","d">>
S_errNodeNotFound == <<"N","o","d","e"," ","n","o","t"," ","f","o","u","n","d"," ","f","o","r"," ","n","o","d","e","R","e","f",":"," ">>
S_errHomeNotFound == <<"C","o","m","p","a","n","y"," ","H","o","m","e"," ","n","o","t"," ","f","o","u","n","d">>
S_errDownloadUrl == <<"F","a","i","l","e","d"," ","t","o"," ","g","e","t"," ","d","o","w","n","l","o","a","d"," ","U","R","L"," ","f","o","r"," ","n","o","d","e","R","e","f"," ">>
S_textQuery == <<"T","E","X","T",":","\"","r","e","p","o","r","t","\"">>
S_propName == <<"{","h","t","t","p",":","/","/","w","w","w",".","a","l","f","r","e","s","c","o",".","o","r","g","/","m","o","d","e","l","/","c","o","n","t","e","n","t","/","1",".","0","}","n","a","m","e">>
S_propContent == <<"{","h","t","t","p",":","/","/","w","w","w",".","a","l","f","r","e","s","c","o",".","o","r","g","/","m","o","d","e","l","/","c","o","n","t","e","n","t","/","1",".","0","}","c","o","n","t","e","n","t">>
S_propCreated == <<"{","h","t","t","p",":","/","/","w","w","w",".","a","l","f","r","e","s","c","o",".","o","r","g","/","m","o","d","e","l","/","c","o","n","t","e","n","t","/","1",".","0","}","c","r","e","a","t","e","d">>
S_download == <<"d","o","w","n","l","o","a","d">>
S_octetStream == <<"a","p","p","l","i","c","a","t","i","o","n","/","o","c","t","e","t","-","s","t","r","e","a","m">>
S_textPlain == <<"t","e","x","t","/","p","l","a","i","n">>
S_errorTxt == <<"_","e","r","r","o","r",".","t","x","t">>
S_keyContentUrl == <<"c","o","n","t","e","n","t","U","r","l","=">>
S_keyMimetype == <<"m","i","m","e","t","y","p","e","=">>
S_keySize == <<"s","i","z","e","=">>
S_pipe == <<"|">>
S_dot == <<".">>
S_errNoContentData == <<"N","o"," ","c","o","n","t","e","n","t"," ","d","a","t","a"," ","f","o","u","n","d"," ","i","n"," ","C","o","n","t","e","n","t","S","e","r","v","i","c","e",".","r","e","a","d"," ","r","e","s","p","o","n","s","e">>
S_errReadFailed == <<"C","o","n","t","e","n","t","S","e","r","v","i","c","e",".","r","e","a","d"," ","m","e","t","h","o","d"," ","f","a","i","l","e","d",":"," ">>
S_errNoStream == <<"N","o"," ","s","t","r","e","a","m","a","b","l","e"," ","c","o","n","t","e","n","t"," ","f","o","u","n","d"," ","i","n"," ","r","e","s","p","o","n","s","e">>
S_errStreamFailed == <<"S","O","A","P"," ","s","t","r","e","a","m","i","n","g"," ","m","e","t","h","o","d"," ","f","a","i","l","e","d",":"," ">>
S_errNoDirect == <<"N","o"," ","d","i","r","e","c","t"," ","c","o","n","t","e","n","t"," ","a","c","c","e","s","s"," ","a","v","a","i","l","a","b","l","e">>
S_errDirectFailed == <<"D","i","r","e","c","t"," ","c","o","n","t","e","n","t"," ","m","e","t","h","o","d"," ","f","a","i","l","e","d",":"," ">>
S_errHttpFailed == <<"H","T","T","P"," ","d","o","w","n","l","o","a","d"," ","m","e","t","h","o","d"," ","f","a","i","l","e","d",":"," ">>
S_errHttp404 == <<"H","T","T","P"," ","4","0","4",":"," ","N","o","t"," ","F","o","u","n","d">>
S_errRetrieve == <<"F","a","i","l","e","d"," ","t","o"," ","r","e","t","r","i","e","v","e"," ","c","o","n","t","e","n","t"," ","f","o","r"," ">>
S_errMigration == <<"M","i","g","r","a","t","i","o","n","-","g","r","a","d","e"," ","c","o","n","t","e","n","t"," ","r","e","t","r","i","e","v","a","l"," ","f","a","i","l","e","d"," ","f","o","r"," ">>
S_errIntegrity == <<"F","i","l","e"," ","i","n","t","e","g","r","i","t","y"," ","c","h","e","c","k"," ","f","a","i","l","e","d",":"," ">>
S_errSizeMismatch == <<"S","i","z","e"," ","m","i","s","m","a","t","c","h",":"," ","e","x","p","e","c","t","e","d"," ">>
S_gotSep == <<","," ","g","o","t"," ">>
S_errEmptyContent == <<"C","o","n","t","e","n","t"," ","i","s"," ","e","m","p","t","y">>
S_commaSpace == <<","," ">>
S_reportPdf == <<"r","e","p","o","r","t",".","p","d","f">>
S_tarGz == <<"a",".","t","a","r",".","g","z">>
S_applicationPdf == <<"a","p","p","l","i","c","a","t","i","o","n","/","p","d","f">>
S_contentSize3 == <<"c","o","n","t","e","n","t","U","r","l","=","s","t","o","r","e",":","/","/","2","0","2","4","/","f",".","b","i","n","|","m","i","m","e","t","y","p","e","=","a","p","p","l","i","c","a","t","i","o","n","/","p","d","f","|","s","i","z","e","=","3","|","e","n","c","o","d","i","n","g","=","U","T","F","-","8">>
S_contentSize1 == <<"s","i","z","e","=","1","|","m","i","m","e","t","y","p","e","=","a","p","p","l","i","c","a","t","i","o","n","/","p","d","f">>
S_contentSize0 == <<"c","o","n","t","e","n","t","U","r","l","=","s","t","o","r","e",":","/","/","2","0","2","4","/","f",".","b","i","n","|","m","i","m","e","t","y","p","e","=","a","p","p","l","i","c","a","t","i","o","n","/","p","d","f","|","s","i","z","e","=","0">>
S_contentNoSize == <<"m","i","m","e","t","y","p","e","=","|","s","i","z","e","=","|","c","o","n","t","e","n","t","U","r","l","=","s","t","o","r","e",":","/","/","2","0","2","4","/","f",".","b","i","n">>
S_contentBadSize == <<"s","i","z","e","=","x","9","|","m","i","m","e","t","y","p","e","=","t","e","x","t","/","h","t","m","l">>
S_storeUrl == <<"s","t","o","r","e",":","/","/","2","0","2","4","/","f",".","b","i","n">>
S_b64ABC == <<"Q","U","J","D">>
S_b64A == <<"Q","Q","=","=">>
S_b64Empty == <<"=","=","=">>
S_hello == <<"h","e","l","l","o">>
S_refN == <<"w","o","r","k","s","p","a","c","e",":","/","/","S","p","a","c","e","s","S","t","o","r","e","/","n">>
S_refK == <<"w","o","r","k","s","p","a","c","e",":","/","/","S","p","a","c","e","s","S","t","o","r","e","/","k">>
S_refF3 == <<"w","o","r","k","s","p","a","c","e",":","/","/","S","p","a","c","e","s","S","t","o","r","e","/","f","3">>
S_F3 == <<"F","3">>
S_refP == <<"w","o","r","k","s","p","a","c","e",":","/","/","S","p","a","c","e","s","S","t","o","r","e","/","p">>
S_P == <<"P">>

-----------------------------------------------------------------------------
(* JavaScript string primitives.                                           *)

Undef == <<"undefined">>

\* JS truthiness of an optional string: neither undefined nor ''.
Truthy(v) == v # Undef /\ v # <<>>

\* a || b on optional strings.
OrElse(a, b) == IF Truthy(a) THEN a ELSE b

UpperChars == <<"A","B","C","D","E","F","G","H","I","J","K","L","M",
                "N","O","P","Q","R","S","T","U","V","W","X","Y","Z">>
LowerChars == <<"a","b","c","d","e","f","g","h","i","j","k","l","m",
                "n","o","p","q","r","s","t","u","v","w","x","y","z">>

ToLowerChar(c) ==
    IF \E i \in 1..Len(UpperChars) : UpperChars[i] = c
    THEN LowerChars[CHOOSE i \in 1..Len(UpperChars) : UpperChars[i] = c]
    ELSE c

toLowerCase(s) == [i \in 1..Len(s) |-> ToLowerChar(s[i])]

IsSpace(c) == c \in {" ", "\t", "\n", "\r"}

SetMin(S) == CHOOSE x \in S : \A y \in S : x <= y
SetMax(S) == CHOOSE x \in S : \A y \in S : x >= y

trim(s) ==
    LET keep == {i \in 1..Len(s) : ~IsSpace(s[i])}
    IN  IF keep = {} THEN <<>> ELSE SubSeq(s, SetMin(keep), SetMax(keep))

\* Position of the first occurrence of sep in s, 0 when there is none.
IndexOf(s, sep) ==
    LET hits == {i \in 1..(Len(s) - Len(sep) + 1) :
                    SubSeq(s, i, i + Len(sep) - 1) = sep}
    IN  IF hits = {} THEN 0 ELSE SetMin(hits)

includes(s, needle) == IndexOf(s, needle) # 0

startsWith(s, p) == Len(p) <= Len(s) /\ SubSeq(s, 1, Len(p)) = p

endsWith(s, p) ==
    Len(p) <= Len(s) /\ SubSeq(s, Len(s) - Len(p) + 1, Len(s)) = p

\* String.prototype.split with a non-empty separator: every part.
RECURSIVE split(_, _)
split(s, sep) ==
    LET i == IndexOf(s, sep)
    IN  IF i = 0 THEN <<s>>
        ELSE <<SubSeq(s, 1, i - 1)>> \o split(SubSeq(s, i + Len(sep), Len(s)), sep)

\* Array.prototype.pop on the result of split (never empty).
pop(parts) == parts[Len(parts)]

\* Helper to normalize nodeRefs for robust comparison.
normalizeNodeRef(ref) == toLowerCase(trim(OrElse(ref, <<>>)))

-----------------------------------------------------------------------------
(* JavaScript values of a SOAP response.                                   *)
(*   column     [name, value]            each an optional string           *)
(*   columns    [t, items]   t: "undef" | "arr" | "obj" (a lone column)    *)
(*   properties [t, kv]      t: "undef" | "obj", kv: key -> value          *)
(*   raw node   [isNull, nodeRef, name, type, properties, columns]         *)
(*   value      [t, items, node, resultSet]  t: "undef" | "arr" | "obj"    *)
(*   resultSet  [has, rows, row]  rows, row: [t, items]                    *)
(*   envelope   [t, queryReturn, nodes, getReturn, getChildrenReturn,       *)
(*               children]               t: "null" | "arr" | "obj"         *)

Col(n, v) == [name |-> n, value |-> v]

NoCols == [t |-> "undef", items |-> <<>>]
ColArr(cs) == [t |-> "arr", items |-> cs]
ColObj(c) == [t |-> "obj", items |-> <<c>>]

NoKv == [k \in {} |-> Undef]
NoProps == [t |-> "undef", kv |-> NoKv]
Props(f) == [t |-> "obj", kv |-> f]
EmptyProps == Props(NoKv)

Raw(ref, nm, ty, ps, cs) ==
    [isNull |-> FALSE, nodeRef |-> ref, name |-> nm, type |-> ty,
     properties |-> ps, columns |-> cs]

RawNull == [isNull |-> TRUE, nodeRef |-> Undef, name |-> Undef, type |-> Undef,
            properties |-> NoProps, columns |-> NoCols]

RawEmptyObject == Raw(Undef, Undef, Undef, NoProps, NoCols)

NoList == [t |-> "undef", items |-> <<>>]
List(xs) == [t |-> "arr", items |-> xs]
Single(x) == [t |-> "obj", items |-> <<x>>]

NoResultSet == [has |-> FALSE, rows |-> NoList, row |-> NoList]
ResultSet(rws, rw) == [has |-> TRUE, rows |-> rws, row |-> rw]

NoValue == [t |-> "undef", items |-> <<>>, node |-> RawEmptyObject,
            resultSet |-> NoResultSet]
ArrValue(xs) == [t |-> "arr", items |-> xs, node |-> RawEmptyObject,
                 resultSet |-> NoResultSet]
ObjValue(n, rs) == [t |-> "obj", items |-> <<>>, node |-> n, resultSet |-> rs]

Envelope(qr, ns, gr) ==
    [t |-> "obj", items |-> <<>>, queryReturn |-> qr, nodes |-> ns,
     getReturn |-> gr, getChildrenReturn |-> NoValue, children |-> NoValue]
ChildrenEnvelope(gcr, ch, ns) ==
    [t |-> "obj", items |-> <<>>, queryReturn |-> NoValue, nodes |-> ns,
     getReturn |-> NoValue, getChildrenReturn |-> gcr, children |-> ch]
NullEnvelope ==
    [t |-> "null", items |-> <<>>, queryReturn |-> NoValue, nodes |-> NoValue,
     getReturn |-> NoValue, getChildrenReturn |-> NoValue, children |-> NoValue]
\* a response that is itself an array: it has none of the named fields
ArrayEnvelope(xs) ==
    [t |-> "arr", items |-> xs, queryReturn |-> NoValue, nodes |-> NoValue,
     getReturn |-> NoValue, getChildrenReturn |-> NoValue, children |-> NoValue]

\* properties?.[key]
PropGet(ps, key) ==
    IF ps.t = "obj" /\ key \in DOMAIN ps.kv THEN ps.kv[key] ELSE Undef

\* columns.find(c => c.name && c.name.includes(needle))?.value
getCol(cols, needle) ==
    LET hits == {i \in 1..Len(cols) :
                    Truthy(cols[i].name) /\ includes(cols[i].name, needle)}
    IN  IF hits = {} THEN Undef ELSE cols[SetMin(hits)].value

\* `${protocol}://${identifier}/${uuid}`
RefTemplate(protocol, identifier, uuid) ==
    protocol \o S_schemeSep \o identifier \o S_slash \o uuid

\* properties = {}; columns.forEach(col => { if (col.name && col.value !==
\* undefined) properties[col.name] = col.value })
PropsFromColumns(cols) ==
    LET ok(i) == Truthy(cols[i].name) /\ cols[i].value # Undef
        keys == {cols[i].name : i \in {j \in 1..Len(cols) : ok(j)}}
        last(k) == SetMax({i \in 1..Len(cols) : ok(i) /\ cols[i].name = k})
    IN  Props([k \in keys |-> cols[last(k)].value])

-----------------------------------------------------------------------------
(* The response normalisers.                                               *)

Record(ref, nm, ty, ps) ==
    [nodeRef |-> ref, name |-> nm, type |-> ty, properties |-> ps]

\* Array.isArray(v) ? v : [v] for a present value that is a node or a list
AsNodeArray(v) == IF v.t = "arr" THEN v.items ELSE <<v.node>>
AsRowArray(l) == l.items

\* a shape detection without the resultSet.rows case
RawNodesOfNoRows(result) ==
    IF result.queryReturn.t = "arr" THEN result.queryReturn.items
    ELSE IF result.queryReturn.t # "undef" THEN AsNodeArray(result.queryReturn)
    ELSE IF result.nodes.t # "undef" THEN AsNodeArray(result.nodes)
    ELSE IF result.getReturn.t # "undef" THEN AsNodeArray(result.getReturn)
    ELSE <<>>

\* extractNodesFromQueryResponse: the shape detection, first match wins.
RawNodesOf(result) ==
    IF result.queryReturn.t = "arr" THEN result.queryReturn.items
    ELSE IF result.queryReturn.t = "obj" /\ result.queryReturn.resultSet.has
            /\ result.queryReturn.resultSet.rows.t # "undef"
         THEN AsRowArray(result.queryReturn.resultSet.rows)
    ELSE IF result.queryReturn.t # "undef" THEN AsNodeArray(result.queryReturn)
    ELSE IF result.nodes.t # "undef" THEN AsNodeArray(result.nodes)
    ELSE IF result.getReturn.t # "undef" THEN AsNodeArray(result.getReturn)
    ELSE <<>>

\* a first filter that keeps only the sub-records with a reference field
HasRef(node) == ~node.isNull /\ Truthy(node.nodeRef)

\* .filter(node => node && (node.nodeRef || node.columns))
HasRefOrColumns(node) ==
    ~node.isNull /\ (Truthy(node.nodeRef) \/ node.columns.t # "undef")

\* the reference of a sub-record: direct, else rebuilt from the columns
ExtractNodeRef(node) ==
    IF ~Truthy(node.nodeRef) /\ node.columns.t = "arr"
    THEN LET protocol == getCol(node.columns.items, S_storeProtocol)
             identifier == getCol(node.columns.items, S_storeIdentifier)
             uuid == getCol(node.columns.items, S_nodeUuid)
         IN  IF Truthy(protocol) /\ Truthy(identifier) /\ Truthy(uuid)
             THEN RefTemplate(protocol, identifier, uuid)
             ELSE node.nodeRef
    ELSE node.nodeRef

\* the name of a sub-record: name field, name columns, name properties,
\* last segment of the reference, 'Unknown'
ExtractName(node) ==
    LET nodeRef == ExtractNodeRef(node)
        fromCols ==
            IF ~Truthy(node.nodeRef) /\ node.columns.t = "arr"
            THEN OrElse(node.name,
                        OrElse(getCol(node.columns.items, S_name),
                               getCol(node.columns.items, S_cmName)))
            ELSE node.name
        fallback ==
            IF Truthy(fromCols) THEN fromCols
            ELSE OrElse(PropGet(node.properties, S_cmName),
                        OrElse(PropGet(node.properties, S_name),
                               IF Truthy(nodeRef) THEN pop(split(nodeRef, S_slash))
                               ELSE S_Unknown))
    IN  OrElse(fallback, S_Unknown)

ExtractType(node) ==
    LET fromCols ==
            IF ~Truthy(node.nodeRef) /\ node.columns.t = "arr"
            THEN OrElse(node.type,
                        OrElse(getCol(node.columns.items, S_type),
                               getCol(node.columns.items, S_cmType)))
            ELSE node.type
    IN  OrElse(fromCols, S_unknown)

ExtractProperties(node) ==
    LET built ==
            IF ~Truthy(node.nodeRef) /\ node.columns.t = "arr"
               /\ node.properties.t = "undef"
            THEN PropsFromColumns(node.columns.items)
            ELSE node.properties
    IN  IF built.t = "undef" THEN EmptyProps ELSE built

\* the .map callback of extractNodesFromQueryResponse
ExtractRecord(node) ==
    Record(OrElse(ExtractNodeRef(node), S_unknown), ExtractName(node),
           ExtractType(node), ExtractProperties(node))

\* a last filter that keeps every record
KeepAll(rec) == TRUE

\* .filter(node => node.nodeRef !== 'unknown')
NotUnknown(rec) == rec.nodeRef # S_unknown

MapSeq(s, F(_)) == [i \in 1..Len(s) |-> F(s[i])]

extractNodesFromQueryResponse(result) ==
    IF result.t = "null" THEN <<>>
    ELSE SelectSeq(MapSeq(SelectSeq(RawNodesOf(result), HasRefOrColumns),
                          ExtractRecord),
                   NotUnknown)

\* The outcome of a function that may throw.
Ok(v) == [ok |-> TRUE, value |-> v, error |-> <<>>]
Err(msg) == [ok |-> FALSE, value |-> <<>>, error |-> msg]

\* RepositoryService.queryChildren, from the response onwards.
\* rows = resultSet.rows || resultSet.row || []
ChildRowsOf(result) ==
    LET rs == result.queryReturn.resultSet
    IN  IF rs.rows.t # "undef" THEN AsRowArray(rs.rows)
        ELSE IF rs.row.t # "undef" THEN AsRowArray(rs.row)
        ELSE <<>>

IsNotNull(row) == ~row.isNull

\* row.columns?.find(...)?.value
ChildCol(row, needle) ==
    IF row.columns.t = "arr" THEN getCol(row.columns.items, needle) ELSE Undef

ChildNodeRef(row) ==
    LET protocol == ChildCol(row, S_storeProtocol)
        identifier == ChildCol(row, S_storeIdentifier)
        uuid == ChildCol(row, S_nodeUuid)
    IN  IF Truthy(protocol) /\ Truthy(identifier) /\ Truthy(uuid)
        THEN RefTemplate(protocol, identifier, uuid)
        ELSE row.nodeRef

ChildName(row) ==
    OrElse(OrElse(row.name, OrElse(ChildCol(row, S_name), ChildCol(row, S_cmName))),
           S_Unknown)

ChildType(row) ==
    OrElse(OrElse(row.type, OrElse(ChildCol(row, S_type), ChildCol(row, S_cmType))),
           S_unknown)

ChildRecord(row) ==
    Record(OrElse(ChildNodeRef(row), S_unknown), ChildName(row), ChildType(row),
           IF row.properties.t = "undef" THEN EmptyProps ELSE row.properties)

queryChildrenRecords(result) ==
    IF result.t = "obj" /\ result.queryReturn.t = "obj"
       /\ result.queryReturn.resultSet.has
    THEN LET kept == SelectSeq(ChildRowsOf(result), IsNotNull)
         IN  \* columns that are a lone object have no find method
             IF \E i \in 1..Len(kept) : kept[i].columns.t = "obj"
             THEN Err(S_findNotFunction)
             ELSE Ok(SelectSeq(MapSeq(kept, ChildRecord), NotUnknown))
    ELSE Ok(<<>>)

\* The .map callback shared by the older getChildren and getNodeChildren:
\* name: node.name || node.properties?.['cm:name'] || node.nodeRef
LegacyRecord(node) ==
    Record(node.nodeRef,
           OrElse(node.name, OrElse(PropGet(node.properties, S_cmName), node.nodeRef)),
           node.type, node.properties)

\* v1 || v2 || [] on response fields, then Array.isArray(x) ? x : [x]
FirstPresent(vs) ==
    LET hits == {i \in 1..Len(vs) : vs[i].t # "undef"}
    IN  IF hits = {} THEN <<>> ELSE AsNodeArray(vs[SetMin(hits)])

\* getChildren of the path-only revision, from the response onwards.
legacyQueryRecords(result) ==
    IF result.t = "null" THEN Err(S_typeError)
    ELSE LET arr == FirstPresent(<<result.queryReturn, result.nodes>>)
         IN  IF \E i \in 1..Len(arr) : arr[i].isNull THEN Err(S_typeError)
             ELSE Ok(MapSeq(arr, LegacyRecord))

HasNodeRef(node) == ~node.isNull /\ Truthy(node.nodeRef)

\* RepositoryService.getNodeChildren (SOAP getChildren), from the response.
getNodeChildrenRecords(result) ==
    IF result.t = "null" THEN Err(S_typeError)
    ELSE Ok(MapSeq(SelectSeq(FirstPresent(<<result.getChildrenReturn,
                                            result.children, result.nodes>>),
                             HasNodeRef),
                   LegacyRecord))

-----------------------------------------------------------------------------
(* The repository the client talks to: the nodes a single-node lookup      *)
(* (RepositoryService.get) returns.                                        *)
(*   node [nodeRef, name, type, parent, parentNodeRef, properties,         *)
(*         aspectParent, associations]                                     *)

Assoc(ty, target) == [associationType |-> ty, target |-> target]

GNode(ref, nm, ty, par, parRef, ps, aspectPar, assocs) ==
    [nodeRef |-> ref, name |-> nm, type |-> ty, parent |-> par,
     parentNodeRef |-> parRef, properties |-> ps, aspectParent |-> aspectPar,
     associations |-> assocs]

NodeCH ==
    GNode(S_refCH, S_CompanyHome, S_cmFolder, Undef, Undef,
          Props([k \in {S_appIcon} |-> S_companyHomeIcon]), Undef, <<>>)
\* a folder of Company Home, parent in the direct parent field
NodeF1 == GNode(S_refF1, S_F1, S_cmFolder, S_refCH, Undef, NoProps, Undef, <<>>)
\* a site under F1, parent only in the association list
NodeF2 ==
    GNode(S_refF2, S_F2, S_stSite, Undef, Undef, EmptyProps, Undef,
          <<Assoc(S_cmContent, S_refO), Assoc(S_assocContains, S_refF1)>>)
\* two nodes that name each other as parent
NodeA == GNode(S_refA, S_A, S_cmFolder, Undef, S_refB, NoProps, Undef, <<>>)
NodeB ==
    GNode(S_refB, S_B, S_cmFolder, Undef, Undef,
          Props([k \in {S_cmParent} |-> S_refA]), Undef, <<>>)
\* a node without any parent
NodeO == GNode(S_refO, S_O, S_cmContent, Undef, Undef, NoProps, Undef, <<>>)

\* a document under F2: name and type only as properties, parent in the
\* parentNodeRef field
NodeF3 ==
    GNode(S_refF3, Undef, Undef, Undef, S_refF2,
          Props([k \in {S_cmName, S_cmType} |->
                    IF k = S_cmName THEN S_F3 ELSE S_cmContent]), Undef, <<>>)
\* a document of Company Home without a name field or a name property
NodeN == GNode(S_refN, Undef, S_cmContent, S_refCH, Undef, EmptyProps, Undef, <<>>)
\* a folder of F1 that is displayed as 'Company Home' and has no properties
NodeK == GNode(S_refK, S_CompanyHome, S_cmFolder, S_refF1, Undef, NoProps, Undef, <<>>)

\* a document whose parent, named by the cm:parentAssoc property, is O
NodeP ==
    GNode(S_refP, S_P, S_cmContent, Undef, Undef,
          Props([k \in {S_cmParentAssoc} |-> S_refO]), Undef, <<>>)

RepoNodes == {NodeCH, NodeF1, NodeF2, NodeF3, NodeA, NodeB, NodeO, NodeP, NodeN, NodeK}

\* the nodes stored under a reference (none: the lookup faults)
RepoGet(ref) == {n \in RepoNodes : n.nodeRef = ref}

-----------------------------------------------------------------------------
(* getCompanyHome, from the response onwards.                              *)

NoRow == [has |-> FALSE, node |-> RawNull]
Row(n) == IF n.isNull THEN NoRow ELSE [has |-> TRUE, node |-> n]
FirstOf(xs) == IF Len(xs) = 0 THEN NoRow ELSE Row(xs[1])
\* Array.isArray(v) ? v[0] : v
FirstNode(v) == IF v.t = "arr" THEN FirstOf(v.items) ELSE Row(v.node)

firstRowFromResponse(r) ==
    IF r.t = "null" THEN NoRow
    ELSE IF r.queryReturn.t = "arr" THEN FirstOf(r.queryReturn.items)
    ELSE IF r.queryReturn.t = "obj" /\ r.queryReturn.resultSet.has
            /\ r.queryReturn.resultSet.rows.t # "undef"
         THEN FirstOf(r.queryReturn.resultSet.rows.items)
    ELSE IF r.queryReturn.t # "undef" THEN Row(r.queryReturn.node)
    ELSE IF r.nodes.t # "undef" THEN FirstNode(r.nodes)
    ELSE IF r.getReturn.t # "undef" THEN FirstNode(r.getReturn)
    ELSE NoRow

Home(ref, nm) == [nodeRef |-> ref, name |-> nm]

companyHomeFromResponse(res) ==
    LET row == firstRowFromResponse(res)
        node == row.node
        rebuild == ~Truthy(node.nodeRef) /\ node.columns.t = "arr"
        nodeRef == ExtractNodeRef(node)
        name == IF rebuild THEN OrElse(node.name, getCol(node.columns.items, S_name))
                ELSE node.name
    IN  IF ~row.has THEN Err(S_errEmptyHome)
        ELSE IF ~Truthy(nodeRef) THEN Err(S_errHomeNoRef)
        ELSE Ok(Home(nodeRef, OrElse(name, S_CompanyHome)))

\* getCompanyHome of the first revision, from the response onwards: the
\* first element of `result.queryReturn || result.nodes || []` as it is
legacyCompanyHome(result) ==
    IF result.t = "null" THEN Err(S_typeError)
    ELSE LET arr == FirstPresent(<<result.queryReturn, result.nodes>>)
         IN  IF Len(arr) > 0 THEN Ok(Home(arr[1].nodeRef, arr[1].name))
             ELSE Err(S_errHomeNotFound)

\* a root test that compares the reference as written, without
\* normalizeNodeRef
IsRootRefExact(nodeRef, companyHomeNodeRef) ==
    \/ nodeRef = S_companyHomePath
    \/ nodeRef = S_companyHomeChildren
    \/ nodeRef = companyHomeNodeRef

\* the root test of getChildren
IsRootRef(nodeRef, companyHomeNodeRef) ==
    LET normalizedNodeRef == normalizeNodeRef(nodeRef)
    IN  \/ normalizedNodeRef = S_companyHomePath
        \/ normalizedNodeRef = S_companyHomeChildren
        \/ normalizedNodeRef = normalizeNodeRef(companyHomeNodeRef)

\* statement: `PATH:"${path}"`
PathStatement(path) == S_pathPrefix \o path \o S_quote

-----------------------------------------------------------------------------
(* resolvePathForNodeRef, between its remote calls.                        *)

MaxDepth == 50

\* the guards without the depth ceiling
ResolveGuardNoCeiling(nodeRef, depth) ==
    IF ~Truthy(nodeRef) THEN Err(S_errInvalidResolve) ELSE Ok(nodeRef)

\* the guards at the head of resolvePathForNodeRef
ResolveGuard(nodeRef, depth) ==
    IF ~Truthy(nodeRef) THEN Err(S_errInvalidResolve)
    ELSE IF depth > MaxDepth THEN Err(S_errMaxDepth \o nodeRef)
    ELSE Ok(nodeRef)

\* "If this is company_home, return /app:company_home"
IsCompanyHomeNode(nodeRef, node, companyHomeNodeRef) ==
    \/ Truthy(companyHomeNodeRef)
         /\ normalizeNodeRef(nodeRef) = normalizeNodeRef(companyHomeNodeRef)
    \/ Truthy(node.nodeRef) /\ Truthy(companyHomeNodeRef)
         /\ normalizeNodeRef(node.nodeRef) = normalizeNodeRef(companyHomeNodeRef)
    \/ node.properties.t = "obj"
         /\ (PropGet(node.properties, S_appIcon) = S_companyHomeIcon
             \/ node.name = S_CompanyHome)

\* "If this is the root, return '/'"
IsStoreRoot(node) == Truthy(node.nodeRef) /\ endsWith(node.nodeRef, S_rootSuffix)

\* associations.find(a => a.associationType && a.associationType.includes('parent'))
ParentFromAssociations(node) ==
    LET hits == {i \in 1..Len(node.associations) :
                    Truthy(node.associations[i].associationType)
                    /\ includes(node.associations[i].associationType, S_parentWord)}
    IN  IF hits = {} THEN Undef ELSE node.associations[SetMin(hits)].target

\* a parent search that falls back to Company Home
ParentOfOrHome(node) ==
    LET direct ==
            OrElse(node.parent,
            OrElse(node.parentNodeRef,
            OrElse(PropGet(node.properties, S_cmParent),
            OrElse(PropGet(node.properties, S_cmParentAssoc),
                   OrElse(node.aspectParent, Undef)))))
    IN  IF Truthy(direct) THEN direct
        ELSE IF Truthy(ParentFromAssociations(node)) THEN ParentFromAssociations(node)
        ELSE S_refCH

\* the parent reference by every strategy, in order
ParentOf(node) ==
    LET direct ==
            OrElse(node.parent,
            OrElse(node.parentNodeRef,
            OrElse(PropGet(node.properties, S_cmParent),
            OrElse(PropGet(node.properties, S_cmParentAssoc),
                   OrElse(node.aspectParent, Undef)))))
    IN  IF Truthy(direct) THEN direct
        ELSE IF Truthy(ParentFromAssociations(node)) THEN ParentFromAssociations(node)
        ELSE direct

\* a composition that gives every segment the prefix 'cm:'
AppendSegmentAlwaysCm(parentPath, node) ==
    LET nodeName == OrElse(node.name, PropGet(node.properties, S_cmName))
    IN  IF endsWith(parentPath, S_slash) THEN parentPath \o S_cmPrefix \o nodeName
        ELSE parentPath \o S_slash \o S_cmPrefix \o nodeName

\* the segment a resolved node appends to its parent's path
AppendSegment(parentPath, node) ==
    LET nodeName == OrElse(node.name, PropGet(node.properties, S_cmName))
        type == OrElse(node.type, PropGet(node.properties, S_cmType))
        ns == IF Truthy(type) /\ startsWith(type, S_cmPrefix) THEN S_cmPrefix ELSE <<>>
    IN  IF endsWith(parentPath, S_slash) THEN parentPath \o ns \o nodeName
        ELSE parentPath \o S_slash \o ns \o nodeName

Frame(ref, node) == [nodeRef |-> ref, node |-> node]

\* the returns of the pending calls, innermost first, once the innermost
\* call has produced `path`
RECURSIVE Unwind(_, _)
Unwind(frames, path) ==
    IF frames = <<>> THEN Ok(path)
    ELSE LET f == frames[Len(frames)]
             nodeName == OrElse(f.node.name, PropGet(f.node.properties, S_cmName))
         IN  IF ~Truthy(nodeName) THEN Err(S_errNoName \o f.nodeRef)
             ELSE Unwind(SubSeq(frames, 1, Len(frames) - 1),
                         AppendSegment(path, f.node))

-----------------------------------------------------------------------------
(* Inputs of the normaliser harness: raw sub-records as Alfresco returns   *)
(* them, and the envelope shapes that can carry them.                      *)

MaxRows == 3

StoreColumns(uuid) ==
    <<Col(S_colProtocol, S_workspace), Col(S_colIdentifier, S_SpacesStore),
      Col(S_colUuid, uuid)>>

RDirect == Raw(S_refDoc, S_Doc, S_cmContent, EmptyProps, NoCols)
RDirectBare == Raw(S_refAbc, Undef, Undef, NoProps, NoCols)
RCols == Raw(Undef, Undef, Undef, NoProps, ColArr(StoreColumns(S_abc123)))
RColsNamed ==
    Raw(Undef, Undef, Undef, NoProps,
        ColArr(StoreColumns(S_d1) \o <<Col(S_colName, S_Doc), Col(S_type, S_cmContent)>>))
RColsNoUuid ==
    Raw(Undef, Undef, Undef, NoProps,
        ColArr(<<Col(S_colProtocol, S_workspace), Col(S_colIdentifier, S_SpacesStore),
                 Col(S_colName, S_Doc)>>))
RColsObject == Raw(Undef, Undef, Undef, NoProps, ColObj(Col(S_colUuid, S_abc123)))
RUnknownRef == Raw(S_unknown, S_Doc, Undef, NoProps, NoCols)
RPropName ==
    Raw(S_refDoc, Undef, Undef, Props([k \in {S_cmName} |-> S_Doc]), NoCols)
RTrailing == Raw(S_refTrailing, Undef, Undef, NoProps, NoCols)
REmptyRefCols == Raw(<<>>, <<>>, Undef, NoProps, ColArr(StoreColumns(S_abc123)))
RBoth == Raw(S_refDoc, Undef, Undef, NoProps, ColArr(StoreColumns(S_abc123)))

RawRecords ==
    {RDirect, RDirectBare, RCols, RColsNamed, RColsNoUuid, RColsObject,
     RUnknownRef, RPropName, RTrailing, REmptyRefCols, RBoth, RawNull,
     RawEmptyObject}

RECURSIVE SeqsUpTo(_, _)
SeqsUpTo(S, n) ==
    IF n = 0 THEN {<<>>}
    ELSE LET shorter == SeqsUpTo(S, n - 1)
         IN  shorter \cup {Append(s, x) : s \in {t \in shorter : Len(t) = n - 1}, x \in S}

\* The shapes a query response takes.  "array" is a response that is itself
\* a sequence; the *One shapes carry a lone object where a list is usual.
ListShapes ==
    {"array", "queryReturn", "rows", "row", "nodes", "getReturn",
     "getChildrenReturn", "null"}
LoneShapes == {"rowsOne", "queryReturnOne", "nodesOne", "getReturnOne"}

ShapesFor(rs) ==
    ListShapes \cup (IF Len(rs) = 1 /\ ~rs[1].isNull THEN LoneShapes ELSE {})

ShapeEnvelope(shape, rs) ==
    CASE shape = "array" -> ArrayEnvelope(rs)
      [] shape = "queryReturn" -> Envelope(ArrValue(rs), NoValue, NoValue)
      [] shape = "rows" ->
            Envelope(ObjValue(RawEmptyObject, ResultSet(List(rs), NoList)),
                     NoValue, NoValue)
      [] shape = "row" ->
            Envelope(ObjValue(RawEmptyObject, ResultSet(NoList, List(rs))),
                     NoValue, NoValue)
      [] shape = "rowsOne" ->
            Envelope(ObjValue(RawEmptyObject, ResultSet(Single(rs[1]), NoList)),
                     NoValue, NoValue)
      [] shape = "queryReturnOne" ->
            Envelope(ObjValue(rs[1], NoResultSet), NoValue, NoValue)
      [] shape = "nodes" -> Envelope(NoValue, ArrValue(rs), NoValue)
      [] shape = "nodesOne" -> Envelope(NoValue, ObjValue(rs[1], NoResultSet), NoValue)
      [] shape = "getReturn" -> Envelope(NoValue, NoValue, ArrValue(rs))
      [] shape = "getReturnOne" ->
            Envelope(NoValue, NoValue, ObjValue(rs[1], NoResultSet))
      [] shape = "getChildrenReturn" -> ChildrenEnvelope(ArrValue(rs), NoValue, NoValue)
      [] shape = "null" -> NullEnvelope


-----------------------------------------------------------------------------
(* RepositoryService.get / queryChildren: the reference check made before  *)
(* the request is sent.                                                    *)

\* a reference check that stops after the test for '://'
validateSeparatorOnly(nodeRef) ==
    IF ~Truthy(nodeRef) \/ ~includes(nodeRef, S_schemeSep)
    THEN Err(S_errInvalidRef \o nodeRef)
    ELSE LET parts == split(nodeRef, S_schemeSep)
             ap == IF includes(parts[2], S_slash) THEN split(parts[2], S_slash)
                   ELSE <<parts[2]>>
         IN  Ok(<<parts[1], ap[1], IF Len(ap) >= 2 THEN ap[2] ELSE Undef>>)

\* a reference check that takes the text after the last '/' as the id
validateLastSegment(nodeRef) ==
    IF ~Truthy(nodeRef) \/ ~includes(nodeRef, S_schemeSep)
    THEN Err(S_errInvalidRef \o nodeRef)
    ELSE LET parts == split(nodeRef, S_schemeSep)
             ap == IF includes(parts[2], S_slash) THEN split(parts[2], S_slash)
                   ELSE <<parts[2]>>
             id == IF Len(ap) >= 2 THEN ap[Len(ap)] ELSE Undef
         IN  IF ~Truthy(parts[1]) \/ ~Truthy(ap[1]) \/ ~Truthy(id)
             THEN Err(S_errInvalidFormat \o nodeRef)
             ELSE Ok(<<parts[1], ap[1], id>>)

validateNodeRef(nodeRef) ==
    IF ~Truthy(nodeRef) \/ ~includes(nodeRef, S_schemeSep)
    THEN Err(S_errInvalidRef \o nodeRef)
    ELSE LET parts == split(nodeRef, S_schemeSep)
             scheme == parts[1]
             rest == parts[2]
             ap == IF includes(rest, S_slash) THEN split(rest, S_slash) ELSE <<rest>>
             address == ap[1]
             id == IF Len(ap) >= 2 THEN ap[2] ELSE Undef
         IN  IF ~Truthy(scheme) \/ ~Truthy(address) \/ ~Truthy(id)
             THEN Err(S_errInvalidFormat \o nodeRef)
             ELSE Ok(<<scheme, address, id>>)

-----------------------------------------------------------------------------
(* SoapService state and the effect of init() and setTicket().             *)

Services == {"auth", "repo", "content"}

NewService == [client |-> FALSE, ticket |-> 0, username |-> FALSE, header |-> 0]

\* init(): create the handle when there is none, then add the ticket header
\* when a ticket and a username are known
InitDone(sv, s) ==
    IF sv[s].client THEN sv
    ELSE [sv EXCEPT ![s].client = TRUE,
                    ![s].header = IF sv[s].ticket # 0 /\ sv[s].username
                                  THEN sv[s].ticket ELSE 0]

\* setTicket(ticket, username)
setTicket(sv, s, t) ==
    [sv EXCEPT ![s].ticket = t,
               ![s].username = TRUE,
               ![s].header = IF sv[s].client /\ t # 0 THEN t ELSE @]

\* the services authenticate() installs the ticket on: the content service
\* exists only in the class revision
TicketServices(rev) == IF rev = "directOnly" THEN {"repo", "content"} ELSE {"repo"}

\* an authenticate() that hands the ticket to the repository service only
InstallTicketRepoOnly(sv, rev, t) == setTicket(sv, "repo", t)

\* an authenticate() that hands the ticket to the content service only
InstallTicketContentOnly(sv, rev, t) == setTicket(sv, "content", t)

InstallTicket(sv, rev, t) ==
    LET a == setTicket(sv, "repo", t)
    IN  IF "content" \in TicketServices(rev) THEN setTicket(a, "content", t) ELSE a

-----------------------------------------------------------------------------
(* Spec: one AlfrescoClient and a caller that makes one call at a time.    *)

MaxCalls == 2
MaxTickets == 2

Tickets == 1..MaxTickets

Revisions == {"pathOnly", "directFallback", "directOnly"}

InputRefs ==
    {S_refCH, S_refCHMixed, S_companyHomePath, S_pathMixed, S_refF1, S_refF2,
     S_refF3, S_refA, S_refO, S_refP, S_refN, S_refK, S_refGone, S_notARef, <<>>}

\* what the repository answers to the root lookup
RootEnvelopes ==
    {ShapeEnvelope("queryReturn",
                   <<Raw(S_refCH, S_CompanyHome, S_cmFolder, NoProps, NoCols)>>),
     ShapeEnvelope("rows", <<Raw(Undef, Undef, Undef, NoProps, ColArr(StoreColumns(S_ch)))>>),
     ShapeEnvelope("queryReturn", <<>>),
     ShapeEnvelope("rows", <<RColsNoUuid>>),
     NullEnvelope}

\* what the repository answers to a children request
ChildRowSets ==
    {<<>>, <<RDirect>>, <<RDirectBare>>, <<RCols>>, <<RColsNoUuid, RColsNamed>>,
     <<RColsObject>>, <<RawNull, RTrailing>>, <<RBoth, RUnknownRef>>,
     <<RawEmptyObject>>}

ChildEnvelopes ==
    UNION {{ShapeEnvelope(s, rs) : s \in ShapesFor(rs)} : rs \in ChildRowSets}

Req(s, m, a) == [svc |-> s, method |-> m, arg |-> a]

NoHome == Home(Undef, Undef)
NoOutcome == [status |-> "none", records |-> <<>>, home |-> NoHome, error |-> <<>>]
Returned(recs) == [status |-> "ok", records |-> recs, home |-> NoHome, error |-> <<>>]
ReturnedHome(h) == [status |-> "ok", records |-> <<>>, home |-> h, error |-> <<>>]
Thrown(msg) == [status |-> "error", records |-> <<>>, home |-> NoHome, error |-> msg]

\* `Failed to get children for nodeRef ${nodeRef}: ${message}`
WrapGetChildren(nodeRef, msg) == S_errGetChildren \o nodeRef \o S_colonSpace \o msg

\* the try blocks of getChildren: the direct call of the class revision and
\* the fallback of the direct-then-fallback revision rethrow wrapped
InTry(rev, where) ==
    \/ rev = "directOnly" /\ where = "direct"
    \/ rev = "directFallback" /\ where \in {"rp_auth", "rp_get", "path_query"}

\* `Failed to get download URL for nodeRef ${nodeRef}: ${message}`
WrapDownloadUrl(nodeRef, msg) == S_errDownloadUrl \o nodeRef \o S_colonSpace \o msg

ErrorAt(rev, o, where, nodeRef, msg) ==
    IF o = "getChildren" /\ InTry(rev, where) THEN WrapGetChildren(nodeRef, msg)
    ELSE IF o = "getDownloadUrl" /\ where = "cv_call" THEN WrapDownloadUrl(nodeRef, msg)
    ELSE msg

\* the children normaliser a revision applies to a path-query response
PathQueryRecords(rev, result) ==
    IF rev = "pathOnly" THEN legacyQueryRecords(result)
    ELSE Ok(extractNodesFromQueryResponse(result))

\* the direct child listing of a revision, from the response onwards
DirectRecords(rev, result) ==
    IF rev = "directOnly" THEN queryChildrenRecords(result)
    ELSE getNodeChildrenRecords(result)

\* the parts of the module a specification does not use stay as they are
NormOff ==
    /\ rows = <<>>
    /\ normPc = "off"
    /\ outs = <<>>

RefOff ==
    /\ rParts = <<>>
    /\ rRef = <<>>
    /\ rPc = "off"
    /\ rSent = <<>>
    /\ rOut = <<>>

FileOff ==
    /\ fOp = "none"
    /\ fRef = <<>>
    /\ fNode = <<>>
    /\ fMeta = <<>>
    /\ fPc = "off"
    /\ fSent = <<>>
    /\ fErrs = <<>>
    /\ fOut = <<>>

AuthOff == aProc = <<>>

PageOff ==
    /\ selectedRoot = "null"
    /\ nodeStack = <<>>
    /\ children = {}
    /\ currentNode = "null"
    /\ sidebarLoading = FALSE
    /\ sidebarError = FALSE
    /\ inFlight = {}
    /\ fetches = 0

MoreOff == AuthOff /\ PageOff

ExtraOff == RefOff /\ FileOff /\ MoreOff

SvcOff ==
    /\ sClient = 0
    /\ sCreated = 0
    /\ sTicket = 0
    /\ sUsername = FALSE
    /\ sHeader = <<>>
    /\ sProc = <<>>
    /\ sUsed = {}

Init ==
    /\ revision \in Revisions
    /\ ticket = 0
    /\ svc = [s \in Services |-> NewService]
    /\ pc = "idle"
    /\ op = "none"
    /\ callRef = Undef
    /\ chRef = Undef
    /\ cur = Undef
    /\ stack = <<>>
    /\ resolved = <<>>
    /\ sent = <<>>
    /\ faults = {}
    /\ outcome = NoOutcome
    /\ calls = 0
    /\ rootLookups = 0
    /\ NormOff
    /\ SvcOff
    /\ ExtraOff

\* the call ends: locals are gone, the outcome is the caller's
Finish(out) ==
    /\ pc' = "idle"
    /\ outcome' = out
    /\ chRef' = Undef
    /\ cur' = Undef
    /\ stack' = <<>>
    /\ resolved' = <<>>

Throw(where, msg) == Finish(Thrown(ErrorAt(revision, op, where, callRef, msg)))

\* the call goes on to the await `p`
Goto(p, home, c, st, pa) ==
    /\ pc' = p
    /\ chRef' = home
    /\ cur' = c
    /\ stack' = st
    /\ resolved' = pa
    /\ outcome' = outcome

\* resolvePathForNodeRef(client, nodeRef, depth, companyHomeNodeRef) is entered
\* with the frames `st` pending: its guards, up to its authenticate()
EnterResolve(where, home, nodeRef, st) ==
    LET g == ResolveGuard(nodeRef, Len(st))
    IN  IF g.ok THEN Goto("rp_auth", home, nodeRef, st, <<>>)
        ELSE Throw(where, g.error)

StartGetChildren ==
    /\ pc = "idle"
    /\ calls < MaxCalls
    /\ \E r \in InputRefs : callRef' = r
    /\ op' = "getChildren"
    /\ pc' = "gc_auth"
    /\ sent' = <<>>
    /\ faults' = {}
    /\ outcome' = NoOutcome
    /\ calls' = calls + 1
    /\ UNCHANGED <<revision, ticket, svc, chRef, cur, stack, resolved, rootLookups, normVars, svcVars, extraVars>>

StartGetCompanyHome ==
    /\ pc = "idle"
    /\ calls < MaxCalls
    /\ callRef' = Undef
    /\ op' = "getCompanyHome"
    /\ pc' = "ch_auth"
    /\ sent' = <<>>
    /\ faults' = {}
    /\ outcome' = NoOutcome
    /\ calls' = calls + 1
    /\ UNCHANGED <<revision, ticket, svc, chRef, cur, stack, resolved, rootLookups, normVars, svcVars, extraVars>>

\* the other convenience methods of the class AlfrescoClient, each a login
\* followed by one call of a service method
ConvenienceOps ==
    {"getStores", "getNode", "query", "search", "getParents", "readContent",
     "writeContent", "clearContent", "getDownloadUrl"}

\* the service method a convenience method calls
ServiceOf(o) ==
    IF o \in {"readContent", "writeContent", "clearContent", "getDownloadUrl"}
    THEN "content" ELSE "repo"

MethodOf(o) ==
    CASE o = "getStores" -> "getStores"
      [] o = "getNode" -> "get"
      [] o \in {"query", "search"} -> "query"
      [] o = "getParents" -> "queryParents"
      [] o = "readContent" -> "read"
      [] o = "writeContent" -> "write"
      [] o = "clearContent" -> "clear"
      [] o = "getDownloadUrl" -> "getDownloadUrl"

\* the methods that take no node reference
TakesReference(o) == o \notin {"getStores", "query", "search"}

ConvenienceInputs(o) ==
    IF o = "getStores" THEN {Undef}
    ELSE IF o \in {"query", "search"} THEN {S_textQuery}
    ELSE {S_refF1, S_notARef}

StartConvenience ==
    /\ pc = "idle"
    /\ calls < MaxCalls
    /\ revision = "directOnly"
    /\ \E o \in ConvenienceOps :
          /\ op' = o
          /\ \E r \in ConvenienceInputs(o) : callRef' = r
    /\ pc' = "cv_auth"
    /\ sent' = <<>>
    /\ faults' = {}
    /\ outcome' = NoOutcome
    /\ calls' = calls + 1
    /\ UNCHANGED <<revision, ticket, svc, chRef, cur, stack, resolved, rootLookups, normVars, svcVars, extraVars>>

AuthPcs == {"gc_auth", "ch_auth", "rp_auth", "cv_auth"}

AfterAuth(p) ==
    CASE p = "gc_auth" -> "ch_auth"
      [] p = "ch_auth" -> "ch_query"
      [] p = "rp_auth" -> "rp_get"
      [] p = "cv_auth" -> "cv_call"

\* authenticate(): authService.login() fails while loading the WSDL
AuthenticateWsdlFails ==
    /\ pc \in AuthPcs
    /\ ~svc["auth"].client
    /\ Throw(pc, S_errWsdl)
    /\ faults' = faults \cup {pc}
    /\ UNCHANGED <<revision, ticket, svc, op, callRef, sent, calls, rootLookups, normVars, svcVars, extraVars>>

\* a failed login that also drops the ticket held
AuthenticateLoginFailsAndClears ==
    /\ pc \in AuthPcs
    /\ ticket' = 0
    /\ svc' = InstallTicket(InitDone(svc, "auth"), revision, 0)
    /\ sent' = Append(sent, Req("auth", "startSession", <<>>))
    /\ Throw(pc, S_errLogin)
    /\ faults' = faults \cup {pc}
    /\ UNCHANGED <<revision, op, callRef, calls, rootLookups, normVars, svcVars, extraVars>>

\* authenticate(): the startSession request is sent and fails
AuthenticateLoginFails ==
    /\ pc \in AuthPcs
    /\ svc' = InitDone(svc, "auth")
    /\ sent' = Append(sent, Req("auth", "startSession", <<>>))
    /\ Throw(pc, S_errLogin)
    /\ faults' = faults \cup {pc}
    /\ UNCHANGED <<revision, ticket, op, callRef, calls, rootLookups, normVars, svcVars, extraVars>>

\* authenticate(): the startSession request returns a ticket, which is stored
\* on the client and installed on the services
Authenticate ==
    /\ pc \in AuthPcs
    /\ \E t \in Tickets :
          /\ ticket' = t
          /\ svc' = InstallTicket(InitDone(svc, "auth"), revision, t)
    /\ sent' = Append(sent, Req("auth", "startSession", <<>>))
    /\ Goto(AfterAuth(pc), chRef, cur, stack, resolved)
    /\ UNCHANGED <<faults, revision, op, callRef, calls, rootLookups, normVars, svcVars, extraVars>>

\* how a request to the repository service ends: the WSDL cannot be loaded
\* (only while the service has no handle), the request faults, or it is
\* answered with one of `bodies`
RepoResponses(bodies) ==
    (IF svc["repo"].client THEN {} ELSE {[k |-> "wsdl"]})
    \cup {[k |-> "fault"]}
    \cup {[k |-> "ok", body |-> b] : b \in bodies}

\* the service and the request log after a request that ended as `r`
RepoRequest(r, method, arg) ==
    /\ svc' = IF r.k = "wsdl" THEN svc ELSE InitDone(svc, "repo")
    /\ sent' = IF r.k = "wsdl" THEN sent ELSE Append(sent, Req("repo", method, arg))

\* `faults` gains the current step when the service method awaited there
\* rejected
Rejected(b) == faults' = IF b THEN faults \cup {pc} ELSE faults

TransportError(r) == IF r.k = "wsdl" THEN S_errWsdl ELSE S_errTransport

\* a getChildren that resolves the path of every node other than the root,
\* whatever the revision
AfterRootLookupResolveFirst(home) ==
    IF IsRootRef(callRef, home) THEN Goto("root_query", home, Undef, <<>>, <<>>)
    ELSE EnterResolve("rp_auth", home, callRef, <<>>)

\* getChildren after `const companyHome = await getCompanyHome(...)`
AfterRootLookup(home) ==
    IF IsRootRef(callRef, home) THEN Goto("root_query", home, Undef, <<>>, <<>>)
    ELSE IF revision = "pathOnly" THEN EnterResolve("rp_auth", home, callRef, <<>>)
    ELSE Goto("direct", home, Undef, <<>>, <<>>)

\* a getChildren that goes on to the child listing when the root lookup fails
RootLookupTolerated ==
    /\ pc = "ch_query"
    /\ \E r \in RepoResponses(RootEnvelopes) :
          /\ RepoRequest(r, "query", PathStatement(S_companyHomePath))
          /\ Rejected(r.k # "ok")
          /\ rootLookups' = IF r.k = "wsdl" THEN rootLookups ELSE rootLookups + 1
          /\ LET h == IF r.k = "ok" THEN companyHomeFromResponse(r.body)
                      ELSE Err(TransportError(r))
             IN  IF op = "getCompanyHome"
                 THEN IF h.ok THEN Finish(ReturnedHome(h.value))
                      ELSE Throw("ch_query", h.error)
                 ELSE AfterRootLookup(IF h.ok THEN h.value.nodeRef ELSE Undef)
    /\ UNCHANGED <<revision, ticket, op, callRef, calls, normVars, svcVars, extraVars>>

\* getCompanyHome: the query PATH:"/app:company_home" and what follows it
RootLookup ==
    /\ pc = "ch_query"
    /\ \E r \in RepoResponses(RootEnvelopes) :
          /\ RepoRequest(r, "query", PathStatement(S_companyHomePath))
          /\ Rejected(r.k # "ok")
          /\ rootLookups' = IF r.k = "wsdl" THEN rootLookups ELSE rootLookups + 1
          /\ IF r.k # "ok" THEN Throw("ch_query", TransportError(r))
             ELSE LET h == companyHomeFromResponse(r.body)
                  IN  IF ~h.ok THEN Throw("ch_query", h.error)
                      ELSE IF op = "getCompanyHome" THEN Finish(ReturnedHome(h.value))
                      ELSE AfterRootLookup(h.value.nodeRef)
    /\ UNCHANGED <<revision, ticket, op, callRef, calls, normVars, svcVars, extraVars>>

\* getChildren, root branch: the query PATH:"/app:company_home/*"
RootChildrenQuery ==
    /\ pc = "root_query"
    /\ \E r \in RepoResponses(ChildEnvelopes) :
          /\ RepoRequest(r, "query", PathStatement(S_companyHomeChildren))
          /\ Rejected(r.k # "ok")
          /\ IF r.k # "ok" THEN Throw("root_query", TransportError(r))
             ELSE LET recs == PathQueryRecords(revision, r.body)
                  IN  IF recs.ok THEN Finish(Returned(recs.value))
                      ELSE Throw("root_query", recs.error)
    /\ UNCHANGED <<revision, ticket, op, callRef, calls, rootLookups, normVars, svcVars, extraVars>>

\* getChildren of the class revision, other nodes: repoService.queryChildren
DirectQueryChildren ==
    /\ pc = "direct"
    /\ revision = "directOnly"
    /\ LET v == validateNodeRef(callRef)
       IN  IF v.ok
           THEN \E r \in RepoResponses(ChildEnvelopes) :
                   /\ RepoRequest(r, "queryChildren",
                                  RefTemplate(v.value[1], v.value[2], v.value[3]))
                   /\ LET recs == IF r.k = "ok" THEN DirectRecords(revision, r.body)
                                  ELSE Err(TransportError(r))
                      IN  /\ Rejected(~recs.ok)
                          /\ IF recs.ok THEN Finish(Returned(recs.value))
                             ELSE Throw("direct", recs.error)
           ELSE \E r \in RepoResponses({}) :
                   \* init() is awaited before the reference is checked
                   /\ svc' = IF r.k = "wsdl" THEN svc ELSE InitDone(svc, "repo")
                   /\ sent' = sent
                   /\ Rejected(TRUE)
                   /\ Throw("direct", IF r.k = "wsdl" THEN S_errWsdl ELSE v.error)
    /\ UNCHANGED <<revision, ticket, op, callRef, calls, rootLookups, normVars, svcVars, extraVars>>

\* getChildren of the direct-then-fallback revision, other nodes:
\* repoService.getNodeChildren, and on any failure the path resolution
DirectGetNodeChildren ==
    /\ pc = "direct"
    /\ revision = "directFallback"
    /\ \E r \in RepoResponses(ChildEnvelopes) :
          /\ RepoRequest(r, "getChildren", callRef)
          /\ LET recs == IF r.k = "ok" THEN DirectRecords(revision, r.body)
                         ELSE Err(TransportError(r))
             IN  /\ Rejected(~recs.ok)
                 /\ IF recs.ok THEN Finish(Returned(recs.value))
                    ELSE EnterResolve("rp_auth", chRef, callRef, <<>>)
    /\ UNCHANGED <<revision, ticket, op, callRef, calls, rootLookups, normVars, svcVars, extraVars>>

\* resolvePathForNodeRef after the path of the innermost node is known
AfterResolve(res) ==
    IF res.ok THEN Goto("path_query", chRef, Undef, <<>>, res.value)
    ELSE Throw("rp_get", res.error)

\* a failure message that names the reference the caller asked for
FetchFailedForCall(nodeRef) == S_errFetch \o callRef

\* the catch around repoService.get: the message names the reference whose
\* lookup failed
FetchFailed(nodeRef) == S_errFetch \o nodeRef

\* resolvePathForNodeRef: the single-node lookup of `cur` and what follows
\* it, up to the next await
ResolveGet ==
    /\ pc = "rp_get"
    /\ \E r \in RepoResponses(RepoGet(cur)) :
          /\ RepoRequest(r, "get", cur)
          /\ Rejected(r.k # "ok")
          /\ IF r.k # "ok" THEN Throw("rp_get", FetchFailed(cur))
             ELSE IF IsCompanyHomeNode(cur, r.body, chRef)
                  THEN AfterResolve(Unwind(stack, S_companyHomePath))
             ELSE IF IsStoreRoot(r.body)
                  THEN AfterResolve(Unwind(stack, S_rootPath))
             ELSE IF ~Truthy(ParentOf(r.body))
                  THEN Throw("rp_get", S_errNoParent \o cur)
             ELSE EnterResolve("rp_get", chRef, ParentOf(r.body),
                               Append(stack, Frame(cur, r.body)))
    /\ UNCHANGED <<revision, ticket, op, callRef, calls, rootLookups, normVars, svcVars, extraVars>>

\* getChildren, resolved path: the query PATH:"<path>/*"
PathChildrenQuery ==
    /\ pc = "path_query"
    /\ \E r \in RepoResponses(ChildEnvelopes) :
          /\ RepoRequest(r, "query", PathStatement(resolved \o S_slashStar))
          /\ Rejected(r.k # "ok")
          /\ IF r.k # "ok" THEN Throw("path_query", TransportError(r))
             ELSE LET recs == PathQueryRecords(revision, r.body)
                  IN  IF recs.ok THEN Finish(Returned(recs.value))
                      ELSE Throw("path_query", recs.error)
    /\ UNCHANGED <<revision, ticket, op, callRef, calls, rootLookups, normVars, svcVars, extraVars>>

\* how a request of a convenience method to service `s` ends
ServiceResponses(s, answers) ==
    (IF svc[s].client THEN {} ELSE {"wsdl"}) \cup {"fault"} \cup answers

\* a convenience method after its login: the one service method it calls.
\* The method awaits init(), checks the reference when it takes one, and sends
\* its request; getNode fails when the answer holds no node.
ConvenienceCall ==
    /\ pc = "cv_call"
    /\ LET s == ServiceOf(op)
           v == IF TakesReference(op) THEN validateNodeRef(callRef) ELSE Ok(callRef)
       IN  \E a \in ServiceResponses(s, IF op = "getNode" THEN {"ok", "none"}
                                         ELSE {"ok"}) :
              /\ svc' = IF a = "wsdl" THEN svc ELSE InitDone(svc, s)
              /\ sent' = IF a = "wsdl" \/ ~v.ok THEN sent
                         ELSE Append(sent, Req(s, MethodOf(op), callRef))
              /\ Rejected(a # "ok" \/ ~v.ok)
              /\ IF a = "wsdl" THEN Throw("cv_call", S_errWsdl)
                 ELSE IF ~v.ok THEN Throw("cv_call", v.error)
                 ELSE IF a = "fault" THEN Throw("cv_call", S_errTransport)
                 ELSE IF a = "none" THEN Throw("cv_call", S_errNodeNotFound \o callRef)
                 ELSE Finish(Returned(<<>>))
    /\ UNCHANGED <<revision, ticket, op, callRef, calls, rootLookups, normVars, svcVars, extraVars>>

Next ==
    \/ StartGetChildren
    \/ StartConvenience
    \/ ConvenienceCall
    \/ StartGetCompanyHome
    \/ AuthenticateWsdlFails
    \/ AuthenticateLoginFails
    \/ Authenticate
    \/ RootLookup
    \/ RootChildrenQuery
    \/ DirectQueryChildren
    \/ DirectGetNodeChildren
    \/ ResolveGet
    \/ PathChildrenQuery

Spec == Init /\ [][Next]_vars
-----------------------------------------------------------------------------
(* SpecNorm: the normalisers applied to every bounded input.               *)

ClientOff ==
    /\ revision = "directOnly"
    /\ ticket = 0
    /\ svc = [s \in Services |-> NewService]
    /\ pc = "off"
    /\ op = "none"
    /\ callRef = Undef
    /\ chRef = Undef
    /\ cur = Undef
    /\ stack = <<>>
    /\ resolved = <<>>
    /\ sent = <<>>
    /\ faults = {}
    /\ outcome = NoOutcome
    /\ calls = 0
    /\ rootLookups = 0

InitNorm ==
    /\ ClientOff
    /\ SvcOff
    /\ ExtraOff
    /\ rows \in SeqsUpTo(RawRecords, MaxRows)
    /\ normPc = "in"
    /\ outs = <<>>

\* extractNodesFromQueryResponse on `rows` delivered in every shape
ExtractNodes ==
    /\ normPc = "in"
    /\ normPc' = "extracted"
    /\ outs' = [s \in ShapesFor(rows) |->
                    extractNodesFromQueryResponse(ShapeEnvelope(s, rows))]
    /\ UNCHANGED <<rows, clientVars, svcVars, extraVars>>

\* queryChildren's row mapping on `rows` delivered in every shape
QueryChildrenRows ==
    /\ normPc = "in"
    /\ normPc' = "children"
    /\ outs' = [s \in ShapesFor(rows) |->
                    queryChildrenRecords(ShapeEnvelope(s, rows))]
    /\ UNCHANGED <<rows, clientVars, svcVars, extraVars>>

\* getCompanyHome of the class and of the first revision on `rows` delivered
\* in every shape
CompanyHomes ==
    /\ normPc = "in"
    /\ normPc' = "home"
    /\ outs' = [s \in ShapesFor(rows) |->
                    [current |-> companyHomeFromResponse(ShapeEnvelope(s, rows)),
                     legacy |-> legacyCompanyHome(ShapeEnvelope(s, rows))]]
    /\ UNCHANGED <<rows, clientVars, svcVars, extraVars>>

NextNorm == ExtractNodes \/ QueryChildrenRows \/ CompanyHomes


SpecNorm == InitNorm /\ [][NextNorm]_vars

-----------------------------------------------------------------------------
(* SpecSvc: one SoapService whose operations overlap.  An operation is     *)
(* `await this.init(); ... await this.call(method, args)`, as in every     *)
(* method of the three services; setTicket is called from outside at any   *)
(* time.  Each await is a point where another operation may run.           *)

NumOps == 3

Ops == 1..NumOps

InitSvc ==
    /\ ClientOff
    /\ NormOff
    /\ ExtraOff
    /\ sClient = 0
    /\ sCreated = 0
    /\ sTicket = 0
    /\ sUsername = FALSE
    /\ sHeader = <<>>
    /\ sProc = [o \in Ops |-> "start"]
    /\ sUsed = {}

\* a header that is written once and never replaced
addTicketHeaderOnce(headers, client, t) ==
    IF client = 0 \/ headers[client] # 0 THEN headers ELSE [headers EXCEPT ![client] = t]

\* addTicketHeader: this.client?.setSecurity(...) acts on the handle held
addTicketHeader(headers, client, t) ==
    IF client = 0 THEN headers ELSE [headers EXCEPT ![client] = t]

\* init(), up to its await: `if (!this.client)` is read, and either
\* soap.createClientAsync is started or init() is over
InitBegin(o) ==
    /\ sProc[o] = "start"
    /\ sProc' = [sProc EXCEPT ![o] = IF sClient = 0 THEN "creating" ELSE "ready"]
    /\ UNCHANGED <<sClient, sCreated, sTicket, sUsername, sHeader, sUsed>>
    /\ UNCHANGED <<clientVars, normVars, extraVars>>

\* init(), after its await: the new handle is stored and given the header
InitCreated(o) ==
    /\ sProc[o] = "creating"
    /\ sCreated' = sCreated + 1
    /\ sClient' = sCreated + 1
    /\ sHeader' = IF sTicket # 0 /\ sUsername
                  THEN addTicketHeader(Append(sHeader, 0), sCreated + 1, sTicket)
                  ELSE Append(sHeader, 0)
    /\ sProc' = [sProc EXCEPT ![o] = "ready"]
    /\ UNCHANGED <<sTicket, sUsername, sUsed>>
    /\ UNCHANGED <<clientVars, normVars, extraVars>>

\* init(): soap.createClientAsync rejects, the operation fails
InitFailed(o) ==
    /\ sProc[o] = "creating"
    /\ sProc' = [sProc EXCEPT ![o] = "failed"]
    /\ UNCHANGED <<sClient, sCreated, sTicket, sUsername, sHeader, sUsed>>
    /\ UNCHANGED <<clientVars, normVars, extraVars>>

\* call(): the request goes out through the handle held now
Call(o) ==
    /\ sProc[o] = "ready"
    /\ sProc' = [sProc EXCEPT ![o] = IF sClient = 0 THEN "failed" ELSE "sent"]
    /\ sUsed' = IF sClient = 0 THEN sUsed ELSE sUsed \cup {sClient}
    /\ UNCHANGED <<sClient, sCreated, sTicket, sUsername, sHeader>>
    /\ UNCHANGED <<clientVars, normVars, extraVars>>

\* call(), after its await: the response or the fault has arrived
CallReturned(o) ==
    /\ sProc[o] = "sent"
    /\ sProc' = [sProc EXCEPT ![o] = "done"]
    /\ UNCHANGED <<sClient, sCreated, sTicket, sUsername, sHeader, sUsed>>
    /\ UNCHANGED <<clientVars, normVars, extraVars>>

\* setTicket(ticket, username)
SetTicket(t) ==
    /\ sTicket' = t
    /\ sUsername' = TRUE
    /\ sHeader' = addTicketHeader(sHeader, sClient, t)
    /\ UNCHANGED <<sClient, sCreated, sProc, sUsed>>
    /\ UNCHANGED <<clientVars, normVars, extraVars>>

NextSvc ==
    \/ \E o \in Ops : InitBegin(o)
    \/ \E o \in Ops : InitCreated(o)
    \/ \E o \in Ops : InitFailed(o)
    \/ \E o \in Ops : Call(o)
    \/ \E o \in Ops : CallReturned(o)
    \/ \E t \in Tickets : SetTicket(t)

SpecSvc == InitSvc /\ [][NextSvc]_vars

-----------------------------------------------------------------------------
(* SpecRef: the reference codec and the service methods that take a node   *)
(* reference (RepositoryService.get, RepositoryService.queryChildren,      *)
(* ContentService.read), applied to bounded reference strings.             *)

\* const [store, id] = nodeRef.split('://')
parseNodeRef(nodeRef) ==
    LET p == split(nodeRef, S_schemeSep)
    IN  [store |-> p[1], id |-> IF Len(p) >= 2 THEN p[2] ELSE Undef]

\* `${store}://${id}`
makeNodeRef(store, id) == store \o S_schemeSep \o id

RefSchemes == {<<>>, <<"w">>, <<"w", "s">>}
RefAddresses == {<<>>, <<"S">>}
RefIds == {<<>>, <<"i">>, <<"i", "d">>, <<"i", "/", "j">>, <<"a", ":", "/", "/", "b">>}
RefForms == {"full", "noSeparator", "noSlash", "nothing"}

\* a reference string as a caller may write it from three parts
WriteRef(form, p) ==
    CASE form = "full" -> p[1] \o S_schemeSep \o p[2] \o S_slash \o p[3]
      [] form = "noSeparator" -> p[1] \o p[2] \o S_slash \o p[3]
      [] form = "noSlash" -> p[1] \o S_schemeSep \o p[2] \o p[3]
      [] form = "nothing" -> <<>>

InitRef ==
    /\ ClientOff
    /\ NormOff
    /\ SvcOff
    /\ FileOff
    /\ MoreOff
    /\ rParts \in RefSchemes \X RefAddresses \X RefIds
    /\ \E form \in RefForms : rRef = WriteRef(form, rParts)
    /\ rPc = "in"
    /\ rSent = <<>>
    /\ rOut = <<>>

\* the node a request names: { store: { scheme, address }, uuid: id }
NodeArg(v) == [scheme |-> v[1], address |-> v[2], uuid |-> v[3]]

\* how a service method that takes a reference runs: init(), the reference
\* check, then one request, which `answers` lists the possible ends of
RefMethod(service, method, answers) ==
    /\ rPc' = method
    /\ \/ /\ rSent' = <<>>
          /\ rOut' = Err(S_errWsdl)
       \/ LET v == validateNodeRef(rRef)
          IN  IF ~v.ok THEN rSent' = <<>> /\ rOut' = Err(v.error)
              ELSE /\ rSent' = <<[svc |-> service, method |-> method,
                                  node |-> NodeArg(v.value)]>>
                   /\ \E a \in answers \cup {"fault"} :
                         rOut' = CASE a = "fault" -> Err(S_errTransport)
                                   [] a = "none" -> Err(S_errNodeNotFound \o rRef)
                                   [] a = "ok" -> Ok(v.value)
    /\ UNCHANGED <<rParts, rRef, clientVars, normVars, svcVars, fileVars, moreVars>>

\* RepositoryService.get: getReturn[0], or 'Node not found'
RefGet ==
    /\ rPc = "in"
    /\ RefMethod("repo", "get", {"ok", "none"})

\* RepositoryService.queryChildren
RefQueryChildren ==
    /\ rPc = "in"
    /\ RefMethod("repo", "queryChildren", {"ok"})

\* ContentService.read
RefRead ==
    /\ rPc = "in"
    /\ RefMethod("content", "read", {"ok"})

\* makeNodeRef(parseNodeRef(nodeRef))
RefReformat ==
    /\ rPc = "in"
    /\ rPc' = "reformat"
    /\ rSent' = <<>>
    /\ rOut' = LET p == parseNodeRef(rRef) IN Ok(makeNodeRef(p.store, p.id))
    /\ UNCHANGED <<rParts, rRef, clientVars, normVars, svcVars, fileVars, moreVars>>

NextRef == RefGet \/ RefQueryChildren \/ RefRead \/ RefReformat

SpecRef == InitRef /\ [][NextRef]_vars
-----------------------------------------------------------------------------
(* The text of createDetailedErrorReport, between its interpolations.  A   *)
(* character outside ASCII is written U+hhhh.                             *)

S_report1 == <<"C","o","n","t","e","n","t"," ","R","e","t","r","i","e","v","a","l"," ","F","a","i","l","e","d"," ","-"," ","C","o","m","p","r","e","h","e","n","s","i","v","e"," ","S","O","A","P"," ","A","n","a","l","y","s","i","s","\n","\n","F","i","l","e","n","a","m","e",":"," ">>
S_report2 == <<"\n","N","o","d","e","R","e","f",":"," ">>
S_report3 == <<"\n","C","o","n","t","e","n","t"," ","T","y","p","e",":"," ">>
S_report4 == <<"\n","E","x","p","e","c","t","e","d"," ","S","i","z","e",":"," ">>
S_report5 == <<" ","b","y","t","e","s","\n","\n","S","O","A","P"," ","A","P","I"," ","R","e","s","u","l","t","s",":","\n","U+2713"," ","S","u","c","c","e","s","s","f","u","l","l","y"," ","a","u","t","h","e","n","t","i","c","a","t","e","d"," ","w","i","t","h"," ","A","l","f","r","e","s","c","o","\n","U+2713"," ","R","e","t","r","i","e","v","e","d"," ","n","o","d","e"," ","m","e","t","a","d","a","t","a"," ","v","i","a"," ","R","e","p","o","s","i","t","o","r","y","S","e","r","v","i","c","e","\n","U+2713"," ","E","x","t","r","a","c","t","e","d"," ","f","i","l","e"," ","i","n","f","o","r","m","a","t","i","o","n",":"," ">>
S_report6 == <<" ","(">>
S_report7 == <<","," ">>
S_report8 == <<" ","b","y","t","e","s",")","\n","U+2717"," ","A","l","l"," ","c","o","n","t","e","n","t"," ","r","e","t","r","i","e","v","a","l"," ","m","e","t","h","o","d","s"," ","f","a","i","l","e","d","\n","\n","A","t","t","e","m","p","t","e","d"," ","S","O","A","P"," ","M","e","t","h","o","d","s",":","\n","1","."," ","C","o","n","t","e","n","t","S","e","r","v","i","c","e",".","r","e","a","d"," ","w","i","t","h"," ","b","a","s","e","6","4"," ","d","e","c","o","d","i","n","g",":"," ">>
S_report9 == <<"\n","2","."," ","S","O","A","P"," ","c","o","n","t","e","n","t"," ","s","t","r","e","a","m","i","n","g"," ","a","p","p","r","o","a","c","h",":"," ">>
S_report10 == <<"\n","3","."," ","D","i","r","e","c","t"," ","b","i","n","a","r","y"," ","c","o","n","t","e","n","t"," ","r","e","t","r","i","e","v","a","l",":"," ">>
S_report11 == <<"\n","\n","T","e","c","h","n","i","c","a","l"," ","A","n","a","l","y","s","i","s",":","\n","T","h","i","s"," ","f","a","i","l","u","r","e"," ","i","n","d","i","c","a","t","e","s"," ","t","h","a","t"," ","y","o","u","r"," ","A","l","f","r","e","s","c","o"," ","S","O","A","P"," ","A","P","I"," ","c","o","n","f","i","g","u","r","a","t","i","o","n"," ","m","a","y"," ","n","o","t"," ","s","u","p","p","o","r","t"," ","\n","b","i","n","a","r","y"," ","c","o","n","t","e","n","t"," ","r","e","t","r","i","e","v","a","l"," ","t","h","r","o","u","g","h"," ","s","t","a","n","d","a","r","d"," ","S","O","A","P"," ","m","e","t","h","o","d","s","."," ","T","h","i","s"," ","i","s"," ","c","o","m","m","o","n"," ","i","n",":","\n","\n","1","."," ","O","l","d","e","r"," ","A","l","f","r","e","s","c","o"," ","v","e","r","s","i","o","n","s"," ","(","p","r","e","-","4",".","0",")"," ","w","i","t","h"," ","l","i","m","i","t","e","d"," ","S","O","A","P"," ","c","o","n","t","e","n","t"," ","s","u","p","p","o","r","t","\n","2","."," ","C","u","s","t","o","m"," ","A","l","f","r","e","s","c","o"," ","c","o","n","f","i","g","u","r","a","t","i","o","n","s"," ","w","i","t","h"," ","c","o","n","t","e","n","t"," ","s","t","r","e","a","m","i","n","g"," ","d","i","s","a","b","l","e","d","\n","3","."," ","P","e","r","m","i","s","s","i","o","n"," ","r","e","s","t","r","i","c","t","i","o","n","s"," ","o","n"," ","S","O","A","P"," ","c","o","n","t","e","n","t"," ","a","c","c","e","s","s","\n","4","."," ","N","e","t","w","o","r","k","/","p","r","o","x","y"," ","c","o","n","f","i","g","u","r","a","t","i","o","n","s"," ","b","l","o","c","k","i","n","g"," ","b","i","n","a","r","y"," ","S","O","A","P"," ","r","e","s","p","o","n","s","e","s","\n","\n","P","o","s","s","i","b","l","e"," ","S","o","l","u","t","i","o","n","s",":","\n","1","."," ","E","n","a","b","l","e"," ","S","O","A","P"," ","c","o","n","t","e","n","t"," ","s","t","r","e","a","m","i","n","g"," ","i","n"," ","A","l","f","r","e","s","c","o"," ","c","o","n","f","i","g","u","r","a","t","i","o","n","\n","2","."," ","U","s","e"," ","A","l","f","r","e","s","c","o","'","s"," ","H","T","T","P"," ","d","o","w","n","l","o","a","d"," ","U","R","L","s"," ","w","i","t","h"," ","p","r","o","p","e","r"," ","a","u","t","h","e","n","t","i","c","a","t","i","o","n","\n","3","."," ","U","p","g","r","a","d","e"," ","t","o"," ","n","e","w","e","r"," ","A","l","f","r","e","s","c","o"," ","v","e","r","s","i","o","n"," ","w","i","t","h"," ","e","n","h","a","n","c","e","d"," ","S","O","A","P"," ","s","u","p","p","o","r","t","\n","4","."," ","C","o","n","f","i","g","u","r","e"," ","c","u","s","t","o","m"," ","S","O","A","P"," ","c","o","n","t","e","n","t"," ","h","a","n","d","l","e","r","s","\n","\n","N","o","d","e"," ","P","r","o","p","e","r","t","i","e","s"," ","R","e","t","r","i","e","v","e","d",":","\n">>
S_report12 == <<"\n","\n","F","o","r"," ","m","o","r","e"," ","i","n","f","o","r","m","a","t","i","o","n",","," ","c","o","n","s","u","l","t"," ","y","o","u","r"," ","A","l","f","r","e","s","c","o"," ","a","d","m","i","n","i","s","t","r","a","t","o","r"," ","o","r"," ","r","e","f","e","r"," ","t","o"," ","t","h","e"," ","\n","A","l","f","r","e","s","c","o"," ","S","O","A","P"," ","A","P","I"," ","d","o","c","u","m","e","n","t","a","t","i","o","n"," ","f","o","r"," ","y","o","u","r"," ","s","p","e","c","i","f","i","c"," ","v","e","r","s","i","o","n",".">>
S_noProperties == <<"N","o"," ","p","r","o","p","e","r","t","i","e","s"," ","a","v","a","i","l","a","b","l","e">>
S_dashSpace == <<"-"," ">>
S_newline == <<"\n">>
-----------------------------------------------------------------------------
(* ContentService: the conversions its retrieval functions apply.          *)

Digits == <<"0", "1", "2", "3", "4", "5", "6", "7", "8", "9">>
IsDigit(c) == \E i \in 1..10 : Digits[i] = c
DigitValue(c) == (CHOOSE i \in 1..10 : Digits[i] = c) - 1

NaN == [nan |-> TRUE, n |-> 0]
Num(n) == [nan |-> FALSE, n |-> n]

RECURSIVE DigitsValue(_, _)
\* the value of the leading digits of `s`, continuing from `acc`
DigitsValue(s, acc) ==
    IF s = <<>> \/ ~IsDigit(s[1]) THEN acc
    ELSE DigitsValue(Tail(s), acc * 10 + DigitValue(s[1]))

RECURSIVE SkipSpace(_)
SkipSpace(s) == IF s # <<>> /\ IsSpace(s[1]) THEN SkipSpace(Tail(s)) ELSE s

\* parseInt(s): leading white space, an optional sign, then decimal digits up
\* to the first other character; NaN when there is no digit
parseInt(s) ==
    LET t == SkipSpace(s)
        signed == t # <<>> /\ t[1] \in {"-", "+"}
        d == IF signed THEN Tail(t) ELSE t
    IN  IF d = <<>> \/ ~IsDigit(d[1]) THEN NaN
        ELSE IF signed /\ t[1] = "-" THEN Num(0 - DigitsValue(d, 0))
        ELSE Num(DigitsValue(d, 0))

\* `x || 0` for a number
OrZero(p) == IF p.nan THEN 0 ELSE p.n

RECURSIVE NatToString(_)
NatToString(n) ==
    IF n < 10 THEN <<Digits[n + 1]>>
    ELSE NatToString(n \div 10) \o <<Digits[(n % 10) + 1]>>

\* `${n}` for an integer
NumToString(n) == IF n < 0 THEN <<"-">> \o NatToString(0 - n) ELSE NatToString(n)

NoMatch == [found |-> FALSE, group |-> <<>>]

\* data.match(/key([^|]+)/): the first place where `key` is followed by a
\* character other than '|', and the characters from there up to the next '|'
MatchField(data, key) ==
    LET k == Len(key)
        hits == {i \in 1..(Len(data) - k) :
                    SubSeq(data, i, i + k - 1) = key /\ data[i + k] # "|"}
    IN  IF hits = {} THEN NoMatch
        ELSE LET from == SetMin(hits) + k
                 stops == {j \in from..Len(data) : data[j] = "|"}
                 to == IF stops = {} THEN Len(data) ELSE SetMin(stops) - 1
             IN  [found |-> TRUE, group |-> SubSeq(data, from, to)]

\* name.replace(/\.[^.]*$/, ''): the name without its last '.' and what
\* follows it
StripExtension(name) ==
    LET dots == {i \in 1..Len(name) : name[i] = "."}
    IN  IF dots = {} THEN name ELSE SubSeq(name, 1, SetMax(dots) - 1)

-----------------------------------------------------------------------------
(* Buffers are sequences of bytes, 0..255.                                 *)

Base64Alphabet ==
    <<"A","B","C","D","E","F","G","H","I","J","K","L","M","N","O","P","Q","R","S",
      "T","U","V","W","X","Y","Z","a","b","c","d","e","f","g","h","i","j","k","l",
      "m","n","o","p","q","r","s","t","u","v","w","x","y","z","0","1","2","3","4",
      "5","6","7","8","9","+","/">>

IsBase64Char(c) == \E i \in 1..64 : Base64Alphabet[i] = c
Base64Value(c) == (CHOOSE i \in 1..64 : Base64Alphabet[i] = c) - 1

\* the characters a base64 decoder reads: those of the alphabet, up to the
\* first padding character
Base64Payload(s) ==
    LET pads == {i \in 1..Len(s) : s[i] = "="}
        upTo == IF pads = {} THEN Len(s) ELSE SetMin(pads) - 1
    IN  SelectSeq(SubSeq(s, 1, upTo), IsBase64Char)

RECURSIVE Base64Bytes(_)
\* the bytes of a run of base64 values, four characters to three bytes; a
\* last group of two or three characters gives one or two bytes
Base64Bytes(v) ==
    IF Len(v) >= 4
    THEN LET n == v[1] * 262144 + v[2] * 4096 + v[3] * 64 + v[4]
         IN  <<n \div 65536, (n \div 256) % 256, n % 256>>
                 \o Base64Bytes(SubSeq(v, 5, Len(v)))
    ELSE IF Len(v) = 3
    THEN LET n == (v[1] * 4096 + v[2] * 64 + v[3]) \div 4
         IN  <<n \div 256, n % 256>>
    ELSE IF Len(v) = 2 THEN <<(v[1] * 64 + v[2]) \div 16>>
    ELSE <<>>

\* Buffer.from(s, 'base64')
FromBase64(s) == Base64Bytes(MapSeq(Base64Payload(s), Base64Value))

\* the printable ASCII characters of codes 32 to 95 and of codes 97 to 126
AsciiUpper ==
    <<" ","!","\"","#","$","%","&","'","(",")","*","+",",","-",".","/","0","1","2",
      "3","4","5","6","7","8","9",":",";","<","=",">","?","@","A","B","C","D","E",
      "F","G","H","I","J","K","L","M","N","O","P","Q","R","S","T","U","V","W","X",
      "Y","Z","[","\\","]","^","_">>
AsciiLower ==
    <<"a","b","c","d","e","f","g","h","i","j","k","l","m","n","o","p","q","r","s",
      "t","u","v","w","x","y","z","{","|","}","~">>

\* the UTF-8 bytes of one character: U+2713 and U+2717 take three bytes
Utf8Char(c) ==
    IF c = "U+2713" THEN <<226, 156, 147>>
    ELSE IF c = "U+2717" THEN <<226, 156, 151>>
    ELSE IF c = "\n" THEN <<10>>
    ELSE IF \E i \in 1..Len(AsciiLower) : AsciiLower[i] = c
    THEN <<96 + (CHOOSE i \in 1..Len(AsciiLower) : AsciiLower[i] = c)>>
    ELSE <<31 + (CHOOSE i \in 1..Len(AsciiUpper) : AsciiUpper[i] = c)>>

RECURSIVE FromUtf8(_)
\* Buffer.from(s, 'utf-8')
FromUtf8(s) ==
    IF s = <<>> THEN <<>>
    ELSE IF Len(s) = 1 THEN Utf8Char(s[1])
    ELSE LET half == Len(s) \div 2
         IN  FromUtf8(SubSeq(s, 1, half)) \o FromUtf8(SubSeq(s, half + 1, Len(s)))
-----------------------------------------------------------------------------
(* ContentService.getFileContent and getFileContentWithIntegrityCheck.     *)
(*   node details  [isArray, properties]: properties is a sequence of      *)
(*                 [name, value] when it is an array                       *)
(*   content value [t, text, bytes, items] for result.readReturn.content   *)
(*                 and result.content                                      *)

Prop(n, v) == [name |-> n, value |-> v]
NodeDetails(ps) == [isArray |-> TRUE, properties |-> ps]
NodeNoProperties == [isArray |-> FALSE, properties |-> <<>>]

\* properties.find(prop => prop.name === key)
FindProperty(ps, key) ==
    LET hits == {i \in 1..Len(ps) : ps[i].name = key}
    IN  IF hits = {} THEN [found |-> FALSE, value |-> Undef]
        ELSE [found |-> TRUE, value |-> ps[SetMin(hits)].value]

Metadata(fn, size, type, url) ==
    [filename |-> fn, contentSize |-> size, contentType |-> type, contentUrl |-> url]

DefaultMetadata == Metadata(S_download, 0, S_octetStream, <<>>)

\* getFileContent, step 1: the metadata read from the node details
fileMetadata(nodeDetails) ==
    IF ~nodeDetails.isArray THEN DefaultMetadata
    ELSE LET nameProperty == FindProperty(nodeDetails.properties, S_propName)
             contentProperty == FindProperty(nodeDetails.properties, S_propContent)
             parse == contentProperty.found /\ Truthy(contentProperty.value)
             contentData == contentProperty.value
             urlMatch == MatchField(contentData, S_keyContentUrl)
             mimetypeMatch == MatchField(contentData, S_keyMimetype)
             sizeMatch == MatchField(contentData, S_keySize)
         IN  Metadata(
                IF nameProperty.found /\ Truthy(nameProperty.value)
                THEN nameProperty.value ELSE S_download,
                IF parse /\ includes(contentData, S_keySize) /\ sizeMatch.found
                THEN OrZero(parseInt(sizeMatch.group)) ELSE 0,
                IF parse /\ includes(contentData, S_keyMimetype) /\ mimetypeMatch.found
                THEN mimetypeMatch.group ELSE S_octetStream,
                IF parse /\ includes(contentData, S_keyContentUrl) /\ urlMatch.found
                THEN urlMatch.group ELSE <<>>)

\* extractContentMetadata: one pass over the properties, a later property
\* overwriting what an earlier one set
MetadataStep(m, prop) ==
    IF prop.name = S_propName
    THEN IF Truthy(prop.value) THEN [m EXCEPT !.filename = prop.value] ELSE m
    ELSE IF prop.name = S_propContent /\ Truthy(prop.value)
    THEN LET urlMatch == MatchField(prop.value, S_keyContentUrl)
             mimetypeMatch == MatchField(prop.value, S_keyMimetype)
             sizeMatch == MatchField(prop.value, S_keySize)
         IN  Metadata(m.filename,
                      IF sizeMatch.found THEN OrZero(parseInt(sizeMatch.group))
                      ELSE m.contentSize,
                      IF mimetypeMatch.found THEN mimetypeMatch.group
                      ELSE m.contentType,
                      IF urlMatch.found THEN urlMatch.group ELSE m.contentUrl)
    ELSE m

RECURSIVE MetadataFold(_, _)
MetadataFold(m, ps) ==
    IF ps = <<>> THEN m ELSE MetadataFold(MetadataStep(m, ps[1]), Tail(ps))

extractContentMetadata(nodeDetails) ==
    IF ~nodeDetails.isArray THEN DefaultMetadata
    ELSE MetadataFold(DefaultMetadata, nodeDetails.properties)

-----------------------------------------------------------------------------
(* The content of a response and what each retrieval method makes of it.   *)

CNone == [t |-> "undef", text |-> <<>>, bytes |-> <<>>, items |-> <<>>]
CString(s) == [t |-> "string", text |-> s, bytes |-> <<>>, items |-> <<>>]
CBuffer(b) == [t |-> "buffer", text |-> <<>>, bytes |-> b, items |-> <<>>]
\* an object with a data property
CData(b) == [t |-> "data", text |-> <<>>, bytes |-> b, items |-> <<>>]
\* an array of items [t, text, bytes]: "content", "data", "empty" or "null"
CArray(xs) == [t |-> "array", text |-> <<>>, bytes |-> <<>>, items |-> xs]
Item(t, s, b) == [t |-> t, text |-> s, bytes |-> b]

\* result.readReturn.content, or result.content, is truthy
HasContent(c) == c.t # "undef" /\ ~(c.t = "string" /\ c.text = <<>>)

\* retrieveContentViaRead after the read request has been answered
readBuffer(c) ==
    IF ~HasContent(c) THEN Err(S_errNoContentData)
    ELSE IF c.t = "string" THEN Ok(FromBase64(c.text))
    ELSE IF c.t = "data" THEN Ok(c.bytes)
    ELSE IF c.t = "array" /\ Len(c.items) > 0
    THEN LET firstItem == c.items[1]
         IN  IF firstItem.t = "null" THEN Err(S_typeError)
             ELSE IF firstItem.t = "content" /\ firstItem.text # <<>>
             THEN Ok(FromBase64(firstItem.text))
             ELSE IF firstItem.t = "data" THEN Ok(firstItem.bytes)
             ELSE Err(S_errNoContentData)
    ELSE Err(S_errNoContentData)

\* retrieveContentViaStream after the readContent request has been answered
streamBuffer(c) ==
    IF ~HasContent(c) THEN Err(S_errNoStream)
    ELSE IF c.t = "buffer" THEN Ok(c.bytes)
    ELSE IF c.t = "string" THEN Ok(FromBase64(c.text))
    ELSE IF c.t = "data" THEN Ok(c.bytes)
    ELSE Err(S_errNoStream)

\* retrieveContentDirectly after the getContent request has been answered
directBuffer(c) ==
    IF ~HasContent(c) THEN Err(S_errNoDirect)
    ELSE IF c.t = "buffer" THEN Ok(c.bytes)
    ELSE IF c.t = "string" THEN Ok(FromBase64(c.text))
    ELSE Err(S_errNoDirect)

\* properties.map(prop => `- ${prop.name}: ${prop.value}`).join('\n')
RECURSIVE PropertyLines(_)
PropertyLines(ps) ==
    IF ps = <<>> THEN <<>>
    ELSE S_dashSpace \o ps[1].name \o S_colonSpace \o ps[1].value
           \o (IF Len(ps) > 1 THEN S_newline ELSE <<>>) \o PropertyLines(Tail(ps))

createDetailedErrorReport(filename, nodeRef, contentType, contentSize, readError, streamError, directError, nodeDetails) ==
    S_report1 \o filename \o S_report2 \o nodeRef \o S_report3 \o contentType
      \o S_report4 \o NumToString(contentSize) \o S_report5 \o filename
      \o S_report6 \o contentType \o S_report7 \o NumToString(contentSize)
      \o S_report8 \o readError \o S_report9 \o streamError \o S_report10
      \o directError \o S_report11
      \o (IF nodeDetails.isArray THEN PropertyLines(nodeDetails.properties)
          ELSE S_noProperties)
      \o S_report12

ContentData(buffer, filename, contentType, size) ==
    [buffer |-> buffer, filename |-> filename, contentType |-> contentType,
     size |-> size]

\* a report whose size field counts characters, not bytes
errorReportCharSize(m, nodeRef, errs, nodeDetails) ==
    LET report == createDetailedErrorReport(m.filename, nodeRef, m.contentType,
                                            m.contentSize, errs[1], errs[2],
                                            errs[3], nodeDetails)
    IN  ContentData(FromUtf8(report), StripExtension(m.filename) \o S_errorTxt,
                    S_textPlain, Len(report))

\* what getFileContent returns when its three methods have failed
errorReportData(m, nodeRef, errs, nodeDetails) ==
    LET fileContent ==
            FromUtf8(createDetailedErrorReport(m.filename, nodeRef, m.contentType,
                                              m.contentSize, errs[1], errs[2],
                                              errs[3], nodeDetails))
    IN  ContentData(fileContent, StripExtension(m.filename) \o S_errorTxt,
                    S_textPlain, Len(fileContent))

-----------------------------------------------------------------------------
(* SpecFile: one retrieval call, one remote round trip per step.           *)

FileOps == {"getFileContent", "getFileContentWithIntegrityCheck"}

FileRefs == {S_refF1, S_notARef}

\* the node details the repository holds
FileNodes ==
    {NodeDetails(<<Prop(S_propName, S_reportPdf), Prop(S_propContent, S_contentSize3)>>),
     NodeDetails(<<Prop(S_propContent, S_contentSize1), Prop(S_propName, S_tarGz),
                   Prop(S_propName, S_reportPdf)>>),
     NodeDetails(<<Prop(S_propContent, S_contentSize0)>>),
     NodeDetails(<<Prop(S_propName, <<>>), Prop(S_propContent, S_contentNoSize)>>),
     NodeDetails(<<Prop(S_propCreated, S_d1), Prop(S_propContent, S_contentBadSize)>>),
     NodeNoProperties}

\* the content a read request is answered with
ReadContents ==
    {CNone, CString(<<>>), CString(S_b64ABC), CString(S_b64Empty), CData(<<65>>),
     CArray(<<>>), CArray(<<Item("content", S_b64A, <<>>)>>),
     CArray(<<Item("data", <<>>, <<65, 66, 67>>)>>), CArray(<<Item("null", <<>>, <<>>)>>)}
StreamContents == {CNone, CBuffer(<<65, 66, 67>>), CString(S_hello), CData(<<>>), CArray(<<>>)}
DirectContents == {CNone, CBuffer(<<65>>), CString(S_b64ABC), CData(<<65>>)}

\* the bodies an HTTP download is answered with
HttpBodies == {<<>>, <<65>>, <<65, 66, 67>>}

FReq(s, m) == [svc |-> s, method |-> m]

InitFile ==
    /\ ClientOff
    /\ NormOff
    /\ SvcOff
    /\ RefOff
    /\ MoreOff
    /\ fOp \in FileOps
    /\ fRef \in FileRefs
    /\ fNode = <<>>
    /\ fMeta = <<>>
    /\ fPc = "get"
    /\ fSent = <<>>
    /\ fErrs = <<>>
    /\ fOut = <<>>

\* the message the outer catch of the running function throws
FileFailure(msg) ==
    (IF fOp = "getFileContent" THEN S_errRetrieve ELSE S_errMigration)
        \o fRef \o S_colonSpace \o msg

FileDone(out) ==
    /\ fPc' = "done"
    /\ fOut' = out

\* step 1 of both functions: repositoryService.get(nodeRef) and the metadata
FileGet ==
    /\ fPc = "get"
    /\ LET v == validateNodeRef(fRef)
       IN  IF ~v.ok
           THEN /\ fSent' = fSent
                /\ FileDone(Err(FileFailure(v.error)))
                /\ UNCHANGED <<fNode, fMeta>>
           ELSE /\ fSent' = Append(fSent, FReq("repo", "get"))
                /\ \/ /\ \E msg \in {S_errTransport, S_errNodeNotFound \o fRef} :
                            FileDone(Err(FileFailure(msg)))
                      /\ UNCHANGED <<fNode, fMeta>>
                   \/ /\ \E n \in FileNodes :
                            /\ fNode' = n
                            /\ fMeta' = IF fOp = "getFileContent" THEN fileMetadata(n)
                                        ELSE extractContentMetadata(n)
                      /\ fPc' = IF fOp = "getFileContent" THEN "read" ELSE "http"
                      /\ fOut' = fOut
    /\ UNCHANGED <<fOp, fRef, fErrs, clientVars, normVars, svcVars, refVars, moreVars>>

\* a SOAP retrieval method: init(), the request, then the decoding of the
\* content; every failure is rethrown behind the method's prefix
SoapRetrieval(contents, Decode(_), prefix) ==
    {[sent |-> FALSE, result |-> Err(prefix \o S_errWsdl)],
     [sent |-> TRUE, result |-> Err(prefix \o S_errTransport)]}
    \cup {[sent |-> TRUE,
           result |-> IF Decode(c).ok THEN Decode(c)
                      ELSE Err(prefix \o Decode(c).error)] : c \in contents}

Sent(r, method) == IF r.sent THEN Append(fSent, FReq("content", method)) ELSE fSent

\* getFileContent, method 1: retrieveContentViaRead
FileRead ==
    /\ fPc = "read"
    /\ \E r \in SoapRetrieval(ReadContents, readBuffer, S_errReadFailed) :
          /\ fSent' = Sent(r, "read")
          /\ IF r.result.ok
             THEN /\ FileDone(Ok(ContentData(r.result.value, fMeta.filename,
                                            fMeta.contentType, Len(r.result.value))))
                  /\ fErrs' = fErrs
             ELSE /\ fErrs' = Append(fErrs, r.result.error)
                  /\ fPc' = "stream"
                  /\ fOut' = fOut
    /\ UNCHANGED <<fOp, fRef, fNode, fMeta, clientVars, normVars, svcVars, refVars, moreVars>>

\* getFileContent, method 2: retrieveContentViaStream
FileStream ==
    /\ fPc = "stream"
    /\ \E r \in SoapRetrieval(StreamContents, streamBuffer, S_errStreamFailed) :
          /\ fSent' = Sent(r, "readContent")
          /\ IF r.result.ok
             THEN /\ FileDone(Ok(ContentData(r.result.value, fMeta.filename,
                                            fMeta.contentType, Len(r.result.value))))
                  /\ fErrs' = fErrs
             ELSE /\ fErrs' = Append(fErrs, r.result.error)
                  /\ fPc' = "direct"
                  /\ fOut' = fOut
    /\ UNCHANGED <<fOp, fRef, fNode, fMeta, clientVars, normVars, svcVars, refVars, moreVars>>

\* getFileContent, method 3: retrieveContentDirectly, and the report when
\* it fails too
FileDirect ==
    /\ fPc = "direct"
    /\ \E r \in SoapRetrieval(DirectContents, directBuffer, S_errDirectFailed) :
          /\ fSent' = Sent(r, "getContent")
          /\ IF r.result.ok
             THEN /\ FileDone(Ok(ContentData(r.result.value, fMeta.filename,
                                            fMeta.contentType, Len(r.result.value))))
                  /\ fErrs' = fErrs
             ELSE /\ fErrs' = Append(fErrs, r.result.error)
                  /\ FileDone(Ok(errorReportData(fMeta, fRef, fErrs', fNode)))
    /\ UNCHANGED <<fOp, fRef, fNode, fMeta, clientVars, normVars, svcVars, refVars, moreVars>>

-----------------------------------------------------------------------------
(* getFileContentWithIntegrityCheck after the metadata.                    *)

Check(n, passed, critical) == [name |-> n, passed |-> passed, critical |-> critical]

RECURSIVE Join(_, _)
\* errors.join(sep)
Join(xs, sep) ==
    IF xs = <<>> THEN <<>>
    ELSE IF Len(xs) = 1 THEN xs[1]
    ELSE xs[1] \o sep \o Join(Tail(xs), sep)

\* an integrity verification whose size check is not critical
verifySizeNotCritical(fileContent, expectedMetadata, nodeRef) ==
    [nodeRef |-> nodeRef,
     isValid |-> Len(fileContent) > 0,
     errors |-> IF Len(fileContent) = 0 THEN <<S_errEmptyContent>> ELSE <<>>,
     checks |-> <<Check("content_not_empty", Len(fileContent) > 0, TRUE)>>,
     downloadedSize |-> Len(fileContent),
     expectedSize |-> expectedMetadata.contentSize]

\* verifyFileIntegrity, without the checksums and the time stamp
verifyFileIntegrity(fileContent, expectedMetadata, nodeRef) ==
    LET sizeCheck ==
            Check("size_verification",
                  expectedMetadata.contentSize = Len(fileContent)
                      \/ expectedMetadata.contentSize = 0, TRUE)
        contentCheck == Check("content_not_empty", Len(fileContent) > 0, TRUE)
        checksumCheck == Check("checksum_generation", TRUE, FALSE)
        filenameCheck ==
            Check("filename_validation", Len(expectedMetadata.filename) > 0, FALSE)
        mimeCheck ==
            Check("mimetype_validation",
                  expectedMetadata.contentType # S_octetStream, FALSE)
        checks == <<sizeCheck, contentCheck, checksumCheck, filenameCheck, mimeCheck>>
        sizeErrors ==
            IF ~sizeCheck.passed /\ expectedMetadata.contentSize > 0
            THEN <<S_errSizeMismatch \o NumToString(expectedMetadata.contentSize)
                     \o S_gotSep \o NumToString(Len(fileContent))>>
            ELSE <<>>
        contentErrors == IF ~contentCheck.passed THEN <<S_errEmptyContent>> ELSE <<>>
    IN  [nodeRef |-> nodeRef,
         isValid |-> \A i \in 1..Len(checks) : checks[i].critical => checks[i].passed,
         errors |-> sizeErrors \o contentErrors,
         checks |-> checks,
         downloadedSize |-> Len(fileContent),
         expectedSize |-> expectedMetadata.contentSize]

\* step 3 and the return of getFileContentWithIntegrityCheck
Verified(fileContent) ==
    LET integrityReport == verifyFileIntegrity(fileContent, fMeta, fRef)
    IN  IF ~integrityReport.isValid
        THEN Err(FileFailure(S_errIntegrity \o Join(integrityReport.errors, S_commaSpace)))
        ELSE Ok([buffer |-> fileContent, filename |-> fMeta.filename,
                 contentType |-> fMeta.contentType, size |-> Len(fileContent),
                 integrity |-> integrityReport])

\* retrieveContentViaHttp: the download is rejected, answered with a status
\* that is not ok, or answered with a body
HttpRetrieval ==
    {Err(S_errHttpFailed \o S_errTransport), Err(S_errHttpFailed \o S_errHttp404)}
    \cup {Ok(b) : b \in HttpBodies}

\* step 2, first attempt: the HTTP download
FileHttp ==
    /\ fPc = "http"
    /\ fSent' = Append(fSent, FReq("http", "GET"))
    /\ \E r \in HttpRetrieval :
          IF r.ok THEN /\ FileDone(Verified(r.value))
                       /\ fErrs' = fErrs
          ELSE /\ fErrs' = Append(fErrs, r.error)
               /\ fPc' = "soap"
               /\ fOut' = fOut
    /\ UNCHANGED <<fOp, fRef, fNode, fMeta, clientVars, normVars, svcVars, refVars, moreVars>>

\* step 2, second attempt: retrieveContentViaRead
FileSoap ==
    /\ fPc = "soap"
    /\ \E r \in SoapRetrieval(ReadContents, readBuffer, S_errReadFailed) :
          /\ fSent' = Sent(r, "read")
          /\ IF r.result.ok THEN /\ FileDone(Verified(r.result.value))
                                 /\ fErrs' = fErrs
             ELSE /\ fErrs' = Append(fErrs, r.result.error)
                  /\ FileDone(Err(FileFailure(r.result.error)))
    /\ UNCHANGED <<fOp, fRef, fNode, fMeta, clientVars, normVars, svcVars, refVars, moreVars>>

NextFile == FileGet \/ FileRead \/ FileStream \/ FileDirect \/ FileHttp \/ FileSoap

SpecFile == InitFile /\ [][NextFile]_vars

-----------------------------------------------------------------------------
(* SpecAuth: one AlfrescoClient of the class revision whose authenticate() *)
(* calls overlap.  authenticate() is                                       *)
(*   this.ticket = await this.authService.login(username, password);       *)
(*   this.repoService.setTicket(...); this.contentService.setTicket(...)   *)
(* and login() is `await this.init(); await this.call('startSession')`.    *)
(* A step runs one call from one await to the next; between two steps any  *)
(* other call may run.                                                     *)

NumAuth == 3

AuthCalls == 1..NumAuth

InitAuth ==
    /\ ClientOff
    /\ NormOff
    /\ SvcOff
    /\ RefOff
    /\ FileOff
    /\ PageOff
    /\ aProc = [a \in AuthCalls |-> "idle"]

AuthFrame == UNCHANGED <<revision, pc, op, callRef, chRef, cur, stack, resolved, sent, faults, outcome, calls, rootLookups, normVars, svcVars, refVars, fileVars, pageVars>>

\* authenticate() is called: login() starts and waits for init()
AuthCall(a) ==
    /\ aProc[a] = "idle"
    /\ aProc' = [aProc EXCEPT ![a] = "init"]
    /\ UNCHANGED <<ticket, svc>>
    /\ AuthFrame

\* login(): init() is over, the startSession request is sent
AuthInitDone(a) ==
    /\ aProc[a] = "init"
    /\ svc' = InitDone(svc, "auth")
    /\ aProc' = [aProc EXCEPT ![a] = "login"]
    /\ UNCHANGED ticket
    /\ AuthFrame

\* login(): init() fails to load the WSDL, authenticate() rejects
AuthInitFails(a) ==
    /\ aProc[a] = "init"
    /\ ~svc["auth"].client
    /\ aProc' = [aProc EXCEPT ![a] = "failed"]
    /\ UNCHANGED <<ticket, svc>>
    /\ AuthFrame

\* the login resolves with ticket t: the assignment to this.ticket and the
\* two setTicket calls run without an await between them
AuthLoginReturns(a) ==
    /\ aProc[a] = "login"
    /\ \E t \in Tickets :
          /\ ticket' = t
          /\ svc' = InstallTicket(svc, revision, t)
    /\ aProc' = [aProc EXCEPT ![a] = "done"]
    /\ AuthFrame

\* the login rejects: the assignment is never reached
AuthLoginFails(a) ==
    /\ aProc[a] = "login"
    /\ aProc' = [aProc EXCEPT ![a] = "failed"]
    /\ UNCHANGED <<ticket, svc>>
    /\ AuthFrame

\* some operation of the repository or content service finishes its init()
ServiceInit(s) ==
    /\ ~svc[s].client
    /\ svc' = InitDone(svc, s)
    /\ UNCHANGED <<ticket, aProc>>
    /\ AuthFrame

NextAuth ==
    \/ \E a \in AuthCalls : AuthCall(a)
    \/ \E a \in AuthCalls : AuthInitDone(a)
    \/ \E a \in AuthCalls : AuthInitFails(a)
    \/ \E a \in AuthCalls : AuthLoginReturns(a)
    \/ \E a \in AuthCalls : AuthLoginFails(a)
    \/ \E s \in {"repo", "content"} : ServiceInit(s)

SpecAuth == InitAuth /\ [][NextAuth]_vars

-----------------------------------------------------------------------------
(* SpecPage: the sidebar of the example page.  A click handler runs up to  *)
(* its fetch; the .then/.catch/.finally chain of a fetch runs when its     *)
(* response arrives, in any order with respect to the other requests.      *)
(* The repository is a fixed tree under Company Home.                      *)

MaxFetches == 4

\* companyHomeChildren: the buttons of the header
Roots == {"Sites", "User Homes"}

\* what /api/children answers for a node
ChildrenOf(n) ==
    CASE n = "Sites" -> {"swsdp"}
      [] n = "User Homes" -> {"alice"}
      [] n = "swsdp" -> {"documentLibrary"}
      [] OTHER -> {}

\* fetch(`/api/children?nodeRef=...`) with the values its callbacks close over
Fetch(kind, node, st) == [id |-> fetches + 1, kind |-> kind, node |-> node, stack |-> st]

InitPage ==
    /\ ClientOff
    /\ NormOff
    /\ SvcOff
    /\ RefOff
    /\ FileOff
    /\ AuthOff
    /\ PageOff

PageFrame == UNCHANGED <<clientVars, normVars, svcVars, refVars, fileVars, authVars>>

\* a header button: setSelectedRoot(store), then the effect on selectedRoot
SelectRoot(r) ==
    /\ fetches < MaxFetches
    /\ r # selectedRoot
    /\ selectedRoot' = r
    /\ sidebarLoading' = TRUE
    /\ sidebarError' = FALSE
    /\ inFlight' = inFlight \cup {Fetch("root", r, <<>>)}
    /\ fetches' = fetches + 1
    /\ UNCHANGED <<nodeStack, children, currentNode>>
    /\ PageFrame

\* the effect's fetch is answered
RootAnswered(q, ok) ==
    /\ q.kind = "root"
    /\ inFlight' = inFlight \ {q}
    /\ children' = IF ok THEN ChildrenOf(q.node) ELSE {}
    /\ nodeStack' = IF ok THEN <<q.node>> ELSE <<>>
    /\ currentNode' = "null"
    /\ sidebarError' = IF ok THEN sidebarError ELSE TRUE
    /\ sidebarLoading' = FALSE
    /\ UNCHANGED <<selectedRoot, fetches>>
    /\ PageFrame

\* navigateToNode(node): the list is rendered, and so can be clicked, only
\* while the sidebar is neither loading nor showing an error
NodeClick(n) ==
    /\ fetches < MaxFetches
    /\ ~sidebarLoading
    /\ ~sidebarError
    /\ n \in children
    /\ sidebarLoading' = TRUE
    /\ sidebarError' = FALSE
    /\ inFlight' = inFlight \cup {Fetch("node", n, <<>>)}
    /\ fetches' = fetches + 1
    /\ UNCHANGED <<selectedRoot, nodeStack, children, currentNode>>
    /\ PageFrame

\* navigateToNode's fetch is answered
NodeAnswered(q, ok) ==
    /\ q.kind = "node"
    /\ inFlight' = inFlight \ {q}
    /\ currentNode' = IF ok THEN q.node ELSE currentNode
    /\ nodeStack' = IF ok THEN Append(nodeStack, q.node) ELSE nodeStack
    /\ children' = IF ok THEN ChildrenOf(q.node) ELSE children
    /\ sidebarError' = IF ok THEN sidebarError ELSE TRUE
    /\ sidebarLoading' = FALSE
    /\ UNCHANGED <<selectedRoot, fetches>>
    /\ PageFrame

\* goBack(): the Back button is rendered while the stack has two entries
\* or more; newStack is computed from the stack of the render clicked on
BackClick ==
    /\ fetches < MaxFetches
    /\ Len(nodeStack) > 1
    /\ sidebarLoading' = TRUE
    /\ sidebarError' = FALSE
    /\ inFlight' = inFlight \cup
          {Fetch("back", nodeStack[Len(nodeStack) - 1], SubSeq(nodeStack, 1, Len(nodeStack) - 1))}
    /\ fetches' = fetches + 1
    /\ UNCHANGED <<selectedRoot, nodeStack, children, currentNode>>
    /\ PageFrame

\* goBack's fetch is answered
BackAnswered(q, ok) ==
    /\ q.kind = "back"
    /\ inFlight' = inFlight \ {q}
    /\ currentNode' = IF ~ok THEN currentNode
                      ELSE IF q.node = q.stack[1] THEN "null" ELSE q.node
    /\ nodeStack' = IF ok THEN q.stack ELSE nodeStack
    /\ children' = IF ok THEN ChildrenOf(q.node) ELSE children
    /\ sidebarError' = IF ok THEN sidebarError ELSE TRUE
    /\ sidebarLoading' = FALSE
    /\ UNCHANGED <<selectedRoot, fetches>>
    /\ PageFrame

NextPage ==
    \/ \E r \in Roots : SelectRoot(r)
    \/ \E q \in inFlight, ok \in BOOLEAN : RootAnswered(q, ok)
    \/ \E n \in children : NodeClick(n)
    \/ \E q \in inFlight, ok \in BOOLEAN : NodeAnswered(q, ok)
    \/ BackClick
    \/ \E q \in inFlight, ok \in BOOLEAN : BackAnswered(q, ok)

SpecPage == InitPage /\ [][NextPage]_vars

-----------------------------------------------------------------------------
(* Properties.                                                             *)

IsLogin(q) == q.svc = "auth" /\ q.method = "startSession"
IsGet(q) == q.svc = "repo" /\ q.method = "get"
IsDirect(q) == q.svc = "repo" /\ q.method \in {"queryChildren", "getChildren"}
IsQuery(q) == q.svc = "repo" /\ q.method = "query"

Positions(P(_)) == {i \in 1..Len(sent) : P(sent[i])}
NumGets == Cardinality(Positions(IsGet))

ResolvePcs == {"rp_auth", "rp_get", "path_query"}

\* the inputs that denote Company Home, whose reference in the modelled
\* repository is workspace://SpacesStore/ch
RootInputs == {S_refCH, S_refCHMixed, S_companyHomePath, S_pathMixed}
NonRootInputs == InputRefs \ RootInputs

C1_FixedStatement == <<"P","A","T","H",":","\"","/","a","p","p",":","c","o","m","p","a","n","y","_","h","o","m","e","/","*","\"">>
C5_RootLookupStatement == <<"P","A","T","H",":","\"","/","a","p","p",":","c","o","m","p","a","n","y","_","h","o","m","e","\"">>
C3_ChildrenSuffix == <<"/","*","\"">>
C3_ResolvedF1Statement == <<"P","A","T","H",":","\"","/","a","p","p",":","c","o","m","p","a","n","y","_","h","o","m","e","/","c","m",":","F","1","/","*","\"">>

IsRootLookup(q) == IsQuery(q) /\ q.arg = C5_RootLookupStatement
IsChildrenQuery(q) == IsQuery(q) /\ q.arg # C5_RootLookupStatement

\* C1: a getChildren call whose reference denotes Company Home (its
\* reference up to case and surrounding blanks, or one of the two literal
\* paths) sends no single-node lookup and no direct child-listing request;
\* the only children request it sends is the fixed query
\* PATH:"/app:company_home/*", and a call that returns has sent it last.
C1_RootShortCircuit ==
    (op = "getChildren" /\ callRef \in RootInputs) =>
        /\ pc \notin ResolvePcs \cup {"direct"}
        /\ \A i \in 1..Len(sent) :
              /\ ~IsGet(sent[i])
              /\ ~IsDirect(sent[i])
              /\ IsChildrenQuery(sent[i]) => sent[i].arg = C1_FixedStatement
        /\ outcome.status = "ok" =>
              /\ Len(sent) > 0
              /\ sent[Len(sent)] = Req("repo", "query", C1_FixedStatement)

C1_Witness ==
    /\ pc = "idle"
    /\ op = "getChildren"
    /\ callRef = S_refCHMixed
    /\ outcome.status = "ok"
    /\ outcome.records # <<>>
    /\ sent[Len(sent)] = Req("repo", "query", C1_FixedStatement)

\* C2: path resolution of a node on a parent cycle that misses the root
\* sends at most MaxDepth + 1 lookups, never yields a path, can always take
\* its next step, and, when none of its remote calls fails, ends in the
\* recursion-limit error, which is what the caller of getChildren receives.
C2_CycleEndsAtCeiling ==
    (op = "getChildren" /\ callRef = S_refA) =>
        /\ NumGets <= MaxDepth + 1
        /\ Len(stack) <= MaxDepth + 1
        /\ pc # "path_query"
        /\ pc \in ResolvePcs => ENABLED Next
        /\ (pc = "idle" /\ NumGets > 0 /\ faults \cap ResolvePcs = {}) =>
              /\ outcome.status = "error"
              /\ includes(outcome.error, S_errMaxDepth)
              /\ NumGets = MaxDepth + 1

C2_Witness ==
    /\ pc = "idle"
    /\ op = "getChildren"
    /\ callRef = S_refA
    /\ revision = "pathOnly"
    /\ NumGets = MaxDepth + 1
    /\ outcome.status = "error"
    /\ outcome.error = S_errMaxDepth \o S_refB

\* C3: in the revisions that have a direct child listing, a getChildren call
\* for a reference that is not the root sends the direct request, keyed by
\* the reference, right after the root lookup; a call whose direct listing
\* succeeded returns having sent nothing after it; a single-node lookup or a
\* children path query is sent only after the direct listing has failed, and
\* then the path query is PATH:"<path>/*" and follows the lookups.
C3_DirectFirst ==
    (op = "getChildren" /\ revision \in {"directFallback", "directOnly"}
       /\ callRef \in NonRootInputs) =>
        /\ \A i \in Positions(IsDirect) :
              /\ sent[i].arg = callRef
              /\ i > 1 /\ IsRootLookup(sent[i - 1])
              /\ \A j \in 1..(i - 1) : ~IsGet(sent[j]) /\ ~IsChildrenQuery(sent[j])
        /\ \A i \in 1..Len(sent) :
              (IsGet(sent[i]) \/ IsChildrenQuery(sent[i])) =>
                  /\ "direct" \in faults
                  /\ \E j \in 1..(i - 1) : IsDirect(sent[j])
        /\ pc \in ResolvePcs => "direct" \in faults
        /\ (outcome.status = "ok" /\ "direct" \notin faults) =>
              IsDirect(sent[Len(sent)])
        /\ (outcome.status = "ok" /\ "direct" \in faults) =>
              /\ IsChildrenQuery(sent[Len(sent)])
              /\ startsWith(sent[Len(sent)].arg, S_pathPrefix)
              /\ endsWith(sent[Len(sent)].arg, C3_ChildrenSuffix)
              /\ IsGet(sent[Len(sent) - 1])

C3_Witness ==
    /\ pc = "idle"
    /\ op = "getChildren"
    /\ revision = "directFallback"
    /\ callRef = S_refF1
    /\ "direct" \in faults
    /\ outcome.status = "ok"
    /\ outcome.records # <<>>
    /\ sent[Len(sent)] = Req("repo", "query", C3_ResolvedF1Statement)

\* C4: (as claimed) while the client holds a ticket, an authenticate() step
\* sends no request and leaves the ticket as it is.
C4_AuthenticateIsNoOp ==
    [][(ticket # 0 /\ pc \in AuthPcs) => (sent' = sent /\ ticket' = ticket)]_vars

\* C5: (as claimed) a client sends the root-lookup query at most once.
C5_RootLookupOnce == rootLookups <= 1

\* C6: (as claimed) a service creates its SOAP client at most once and sends
\* every request through that one handle.
C6_ClientCreatedOnce == sCreated <= 1 /\ sUsed \subseteq {1}
C8_SchemeSep == <<":","/","/">>
C8_Slash == <<"/">>
C8_Protocol == <<"s","t","o","r","e","-","p","r","o","t","o","c","o","l">>
C8_Identifier == <<"s","t","o","r","e","-","i","d","e","n","t","i","f","i","e","r">>
C8_Uuid == <<"n","o","d","e","-","u","u","i","d">>
C7_Placeholder == <<"u","n","k","n","o","w","n">>
C10_Reference == <<"w","o","r","k","s","p","a","c","e",":","/","/","S","p","a","c","e","s","S","t","o","r","e","/","a","b","c","-","1","2","3">>
C10_LastSegment == <<"a","b","c","-","1","2","3">>
C10_Unknown == <<"U","n","k","n","o","w","n">>

IsMap(ps) == ps.t = "obj"

WellFormed(rec) ==
    /\ rec.nodeRef # Undef /\ rec.nodeRef # <<>> /\ rec.nodeRef # C7_Placeholder
    /\ rec.name # Undef /\ rec.name # <<>>
    /\ rec.type # Undef /\ rec.type # <<>>
    /\ IsMap(rec.properties)

\* C7: in the client class, every record a getChildren call returns, on the
\* root branch (last request: the fixed path query) and on the direct branch
\* (last request: queryChildren), whatever shape the response had, has a
\* non-empty reference other than 'unknown', a non-empty name, a type, and a
\* properties map.
C7_RecordsWellFormed ==
    (revision = "directOnly" /\ op = "getChildren" /\ outcome.status = "ok") =>
        \A i \in 1..Len(outcome.records) : WellFormed(outcome.records[i])

C7_Witness ==
    /\ revision = "directOnly"
    /\ pc = "idle"
    /\ op = "getChildren"
    /\ callRef = S_refF1
    /\ outcome.status = "ok"
    /\ IsDirect(sent[Len(sent)])
    /\ Len(outcome.records) = 1
    /\ outcome.records[1].nodeRef = S_refAbc
    /\ outcome.records[1].type = C7_Placeholder
    /\ outcome.records[1].properties = EmptyProps

\* the column of a sub-record whose name contains `needle`
ColumnValue(node, needle) ==
    LET hits == {i \in 1..Len(node.columns.items) :
                    /\ node.columns.items[i].name # Undef
                    /\ includes(node.columns.items[i].name, needle)}
    IN  IF node.columns.t # "arr" \/ hits = {} THEN Undef
        ELSE node.columns.items[SetMin(hits)].value

Present(v) == v # Undef /\ v # <<>>

\* a sub-record carries a reference when its reference field is a non-empty
\* string other than the placeholder 'unknown'
CarriesReference(node) == Present(node.nodeRef) /\ node.nodeRef # C7_Placeholder

ColumnsSupplyReference(node) ==
    /\ Present(ColumnValue(node, C8_Protocol))
    /\ Present(ColumnValue(node, C8_Identifier))
    /\ Present(ColumnValue(node, C8_Uuid))

Constructible(node) ==
    ~node.isNull /\ (CarriesReference(node) \/ ColumnsSupplyReference(node))

ExpectedReference(node) ==
    IF Present(node.nodeRef) THEN node.nodeRef
    ELSE ColumnValue(node, C8_Protocol) \o C8_SchemeSep
            \o ColumnValue(node, C8_Identifier) \o C8_Slash
            \o ColumnValue(node, C8_Uuid)

RECURSIVE ConstructibleRefs(_)
ConstructibleRefs(rs) ==
    IF rs = <<>> THEN <<>>
    ELSE (IF Constructible(Head(rs)) THEN <<ExpectedReference(Head(rs))>> ELSE <<>>)
            \o ConstructibleRefs(Tail(rs))

Refs(recs) == [i \in 1..Len(recs) |-> recs[i].nodeRef]

\* the shapes in which the normaliser finds a list of sub-records
CarryingShapes == {"queryReturn", "rows", "nodes", "getReturn"}

\* C8: for a list of sub-records in any shape the normaliser reads, the
\* output has exactly one record per sub-record that carries a reference or
\* whose columns supply store protocol, store identifier and node uuid, in
\* the input order and with that reference; the others are absent.
C8_OnePerConstructible ==
    normPc = "extracted" =>
        \A s \in CarryingShapes : Refs(outs[s]) = ConstructibleRefs(rows)

C8_Witness ==
    /\ normPc = "extracted"
    /\ rows = <<RDirect, RColsNoUuid, RCols>>
    /\ Len(outs["rows"]) = 2
    /\ Refs(outs["rows"]) = <<S_refDoc, S_refAbc>>

\* the sub-records with every column-only record of node abc-123 replaced
\* by the record that carries the same reference directly
DirectTwin(rs) == [i \in 1..Len(rs) |-> IF rs[i] = RCols THEN RDirectBare ELSE rs[i]]

SameUnderEnvelopes ==
    /\ outs["queryReturn"] = outs["rows"]
    /\ "rowsOne" \in DOMAIN outs => outs["rowsOne"] = outs["rows"]
    /\ Refs(outs["rows"])
          = Refs(extractNodesFromQueryResponse(ShapeEnvelope("rows", DirectTwin(rows))))

C10_NameFromLastSegment ==
    (revision = "directOnly" /\ op = "getChildren" /\ outcome.status = "ok") =>
        \A i \in 1..Len(outcome.records) :
            /\ outcome.records[i].nodeRef = C10_Reference
                  => outcome.records[i].name = C10_LastSegment
            /\ outcome.records[i].name = C10_Unknown
                  => pop(split(outcome.records[i].nodeRef, C8_Slash)) = <<>>
C11_InvalidPrefix == <<"I","n","v","a","l","i","d"," ","n","o","d","e","R","e","f">>
C11_NoIdReference == <<"w",":","/","/","S">>

SepAt(s, i) == i + 2 <= Len(s) /\ s[i] = ":" /\ s[i + 1] = "/" /\ s[i + 2] = "/"
SepPositions(s) == {i \in 1..Len(s) : SepAt(s, i)}
LacksSeparator(s) == SepPositions(s) = {}
Least(S) == CHOOSE i \in S : \A j \in S : i <= j

\* a reference string is malformed when it is missing or empty, has no
\* '://', or, reading scheme://address/id at its first '://' and the first
\* '/' after it, has no such '/', or an empty scheme, address or id
Malformed(s) ==
    \/ s = Undef
    \/ s = <<>>
    \/ LacksSeparator(s)
    \/ LET k == Least(SepPositions(s))
           r == SubSeq(s, k + 3, Len(s))
           slashes == {i \in 1..Len(r) : r[i] = "/"}
       IN  \/ k = 1
           \/ slashes = {}
           \/ Least(slashes) = 1
           \/ LET f == Least(slashes)
                  later == {i \in slashes : i > f}
              IN  (IF later = {} THEN Len(r) + 1 ELSE Least(later)) = f + 1

RefMethods == {"get", "queryChildren", "read"}

ValidParts(p) ==
    /\ p[1] # <<>> /\ p[2] # <<>> /\ p[3] # <<>>
    /\ LacksSeparator(p[3])

Formatted(p) == p[1] \o <<":", "/", "/">> \o p[2] \o <<"/">> \o p[3]

HasSlash(s) == \E i \in 1..Len(s) : s[i] = "/"

UpToSlash(s) ==
    IF HasSlash(s) THEN SubSeq(s, 1, Least({i \in 1..Len(s) : s[i] = "/"}) - 1)
    ELSE s

PartsSent == <<rSent[1].node.scheme, rSent[1].node.address, rSent[1].node.uuid>>

-----------------------------------------------------------------------------
(* The errors of getChildren.                                              *)

FallbackPcs == {"rp_auth", "rp_get", "path_query"}

\* the messages of the failures a remote call can end with
RemoteMessages == {S_errTransport, S_errWsdl, S_errLogin}

\* the direct listing was rejected and a remote call of the fallback was too
BothFailed ==
    /\ revision = "directFallback"
    /\ op = "getChildren"
    /\ pc = "idle"
    /\ "direct" \in faults
    /\ faults \cap FallbackPcs # {}

\* C13: when the direct child listing fails and a remote call of the
\* fallback fails too, getChildren ends with one error whose message holds
\* the caller's reference and the message of the remote failure that stopped
\* the fallback.
C13_InnermostCauseNamed ==
    BothFailed =>
        /\ outcome.status = "error"
        /\ includes(outcome.error, callRef)
        /\ \E m \in RemoteMessages : includes(outcome.error, m)

\* C14: every failure of getChildren(ref) of the class AlfrescoClient,
\* whether raised by a login, by the root lookup or by the child listing,
\* reaches the caller as an error whose message contains ref.
C14_EveryErrorNamesReference ==
    (revision = "directOnly" /\ op = "getChildren" /\ pc = "idle"
        /\ outcome.status = "error")
        => includes(outcome.error, callRef)

-----------------------------------------------------------------------------
(* The round trips of one path resolution.                                 *)

\* the requests resolvePathForNodeRef sends in the current call: its logins
\* and single-node lookups, all of which follow the root lookup
ResolutionTrips ==
    {i \in 1..Len(sent) :
        /\ IsLogin(sent[i]) \/ IsGet(sent[i])
        /\ \E j \in 1..(i - 1) : IsRootLookup(sent[j])}

\* C15: one path resolution makes at most 50 remote round trips, counting
\* its single-node lookups and every other request it sends, and a path is
\* handed to the children query only within that bound.
C15_AtMostFiftyRoundTrips ==
    (op = "getChildren" /\ revision \in {"pathOnly", "directFallback"}) =>
        Cardinality(ResolutionTrips) <= MaxDepth

-----------------------------------------------------------------------------
(* The result of getCompanyHome.                                           *)

RootNotFound == {S_errEmptyHome, S_errHomeNoRef, S_errHomeNotFound}

\* a result of getCompanyHome as the claim allows it
HomeOrNotFound(r) ==
    IF r.ok THEN Truthy(r.value.nodeRef) /\ Truthy(r.value.name)
    ELSE r.error \in RootNotFound

\* C16: for every response shape getCompanyHome either returns a record with
\* a non-empty nodeRef and a non-empty name or fails with a root-not-found
\* error, in the class AlfrescoClient and in the first revision alike.
C16_HomeHasReference ==
    normPc = "home" =>
        \A s \in DOMAIN outs :
            HomeOrNotFound(outs[s].current) /\ HomeOrNotFound(outs[s].legacy)

-----------------------------------------------------------------------------
(* Login before the first request of a convenience method.                 *)

IsServiceRequest(q) == q.svc \in {"repo", "content"}

\* the step sends a request to the repository or content service
SendsServiceRequest ==
    /\ Len(sent') = Len(sent) + 1
    /\ IsServiceRequest(sent'[Len(sent')])

\* the methods of the class AlfrescoClient
ClassOps == ConvenienceOps \cup {"getChildren", "getCompanyHome"}

\* C17: in every convenience method of the class AlfrescoClient a request to
\* the repository or content service is sent only after a login of the same
\* call has succeeded, with that login's ticket held by the client, set on
\* both services and in the SOAP header of the sending service; a call whose
\* login failed has ended in an error without any such request.
C17_LoginBeforeRequests ==
    [][revision = "directOnly" =>
          /\ SendsServiceRequest =>
                /\ op \in ClassOps
                /\ \E j \in 1..Len(sent) : IsLogin(sent[j])
                /\ faults \cap AuthPcs = {}
                /\ ticket \in Tickets
                /\ ticket' = ticket
                /\ svc'["repo"].ticket = ticket
                /\ svc'["content"].ticket = ticket
                /\ svc'[sent'[Len(sent')].svc].header = ticket
          /\ (faults' \cap AuthPcs # {}) =>
                /\ pc' = "idle"
                /\ outcome'.status = "error"
                /\ \A i \in 1..Len(sent') : ~IsServiceRequest(sent'[i])]_vars

C17_Witness ==
    /\ revision = "directOnly"
    /\ op = "readContent"
    /\ pc = "idle"
    /\ outcome.status = "ok"
    /\ ticket = 2
    /\ sent = <<Req("auth", "startSession", <<>>), Req("content", "read", S_refF1)>>
    /\ svc["content"].header = 2

-----------------------------------------------------------------------------
(* Content retrieval.                                                      *)

IsContentRequest(q) == q.svc = "content"

\* the place of a retrieval method of getFileContent in its order
MethodRank(m) ==
    CASE m = "read" -> 1
      [] m = "readContent" -> 2
      [] m = "getContent" -> 3

C18_Prefixes == <<S_errReadFailed, S_errStreamFailed, S_errDirectFailed>>

\* the bytes a string takes in UTF-8: three for a character written U+hhhh
ByteLength(s) == Len(s) + 2 * Cardinality({i \in 1..Len(s) : Len(s[i]) > 1})

C18_Report ==
    createDetailedErrorReport(fMeta.filename, fRef, fMeta.contentType,
                              fMeta.contentSize, fErrs[1], fErrs[2], fErrs[3], fNode)

C18_ReportName == <<"r","e","p","o","r","t","_","e","r","r","o","r",".","t","x","t">>

MatchesMetadata(buffer, m) ==
    /\ Len(buffer) > 0
    /\ m.contentSize = 0 \/ Len(buffer) = m.contentSize

\* C19: a result of getFileContentWithIntegrityCheck carries a valid
\* integrity report: its content is not empty and has the byte length the
\* metadata records, unless the metadata records 0; a call that ends
\* otherwise has failed.
C19_ReturnedContentVerified ==
    (fOp = "getFileContentWithIntegrityCheck" /\ fPc = "done") =>
        IF fOut.ok
        THEN /\ fOut.value.integrity.isValid
             /\ fOut.value.integrity.errors = <<>>
             /\ MatchesMetadata(fOut.value.buffer, fMeta)
             /\ fOut.value.size = Len(fOut.value.buffer)
             /\ fOut.value.integrity.downloadedSize = fOut.value.size
             /\ fOut.value.integrity.expectedSize = fMeta.contentSize
        ELSE startsWith(fOut.error, S_errMigration \o fRef)

C19_Witness ==
    /\ fOp = "getFileContentWithIntegrityCheck"
    /\ fPc = "done"
    /\ fOut.ok
    /\ fMeta.contentSize = 3
    /\ fOut.value.buffer = <<65, 66, 67>>
    /\ fOut.value.integrity.isValid

\* C20: getFileContentWithIntegrityCheck tries the SOAP retrieval first and
\* sends the HTTP download only after the SOAP attempt has failed.
C20_SoapBeforeHttp ==
    fOp = "getFileContentWithIntegrityCheck" =>
        \A i \in 1..Len(fSent) :
            fSent[i].svc = "http" =>
                /\ \E j \in 1..(i - 1) : IsContentRequest(fSent[j])
                /\ \E k \in 1..Len(fErrs) : startsWith(fErrs[k], S_errReadFailed)

-----------------------------------------------------------------------------
(* Path resolution: where it stops, what it composes, how it fails.         *)

C21_RootPath == <<"/","a","p","p",":","c","o","m","p","a","n","y","_","h","o","m","e">>
C21_RootIcon == <<"c","o","m","p","a","n","y","_","h","o","m","e">>
C21_RootName == <<"C","o","m","p","a","n","y"," ","H","o","m","e">>

\* the three marks of the root: the reference looked up is the root
\* reference up to surrounding blanks and letter case, or the node fetched
\* has the root icon property, or it has the root's display name
C21_MarkedRoot(nodeRef, node, home) ==
    \/ Truthy(home) /\ normalizeNodeRef(nodeRef) = normalizeNodeRef(home)
    \/ PropGet(node.properties, S_appIcon) = C21_RootIcon
    \/ node.name = C21_RootName

\* the lookup of `cur` being answered in this step fetches a marked root
C21_FetchesRoot ==
    /\ pc = "rp_get"
    /\ Len(sent') = Len(sent) + 1
    /\ "rp_get" \notin faults'
    /\ \E n \in RepoGet(cur) : C21_MarkedRoot(cur, n, chRef)

\* C21: when the node fetched by a path resolution is marked as the root (by
\* its reference, by the icon property value 'company_home' or by the display
\* name 'Company Home'), the resolution looks up no further node and the
\* path it hands on starts at the fixed root path '/app:company_home'.
C21_StopsAtRoot ==
    [][C21_FetchesRoot =>
          /\ pc' \notin {"rp_auth", "rp_get"}
          /\ pc' = "path_query" => startsWith(resolved', C21_RootPath)]_vars

C22_Cm == <<"c","m",":">>
C22_Site == <<"s","t",":","s","i","t","e">>
C22_Node(ref, nm, ty) == [nodeRef |-> ref, name |-> nm, type |-> ty]

\* the parent chains of the repository, each from the child of Company Home
\* down to the node asked for
C22_Chains ==
    {<<C22_Node(S_refF1, <<"F","1">>, C22_Cm \o <<"f","o","l","d","e","r">>)>>,
     <<C22_Node(S_refF1, <<"F","1">>, C22_Cm \o <<"f","o","l","d","e","r">>),
       C22_Node(S_refF2, <<"F","2">>, C22_Site)>>,
     <<C22_Node(S_refF1, <<"F","1">>, C22_Cm \o <<"f","o","l","d","e","r">>),
       C22_Node(S_refF2, <<"F","2">>, C22_Site),
       C22_Node(S_refF3, <<"F","3">>, C22_Cm \o <<"c","o","n","t","e","n","t">>)>>}

C22_Prefix(ty) == IF Len(ty) >= 3 /\ SubSeq(ty, 1, 3) = C22_Cm THEN C22_Cm ELSE <<>>

\* root path, then '/' + prefix + name for n1 up to nk
RECURSIVE C22_PathOf(_)
C22_PathOf(chain) ==
    IF chain = <<>> THEN C21_RootPath
    ELSE C22_PathOf(SubSeq(chain, 1, Len(chain) - 1))
           \o <<"/">> \o C22_Prefix(chain[Len(chain)].type) \o chain[Len(chain)].name

C22_HasEmptySegment(p) == \E i \in 1..(Len(p) - 1) : p[i] = "/" /\ p[i + 1] = "/"

\* C22: the path resolved for the last node of a parent chain
\* root <- n1 <- ... <- nk is '/app:company_home' followed by
\* '/' + prefix + name of n1 up to nk, the prefix being 'cm:' exactly for a
\* type that starts with 'cm:'; no resolved path holds '//'.
C22_PathComposed ==
    pc = "path_query" =>
        /\ ~C22_HasEmptySegment(resolved)
        /\ \A ch \in C22_Chains :
              callRef = ch[Len(ch)].nodeRef => resolved = C22_PathOf(ch)

C22_PathF3 == <<"/","a","p","p",":","c","o","m","p","a","n","y","_","h","o","m","e","/","c","m",":","F","1","/","F","2","/","c","m",":","F","3">>

C22_Witness ==
    /\ pc = "path_query"
    /\ callRef = S_refF3
    /\ resolved = C22_PathF3

C23_PathN == <<"/","a","p","p",":","c","o","m","p","a","n","y","_","h","o","m","e","/","c","m",":","n">>
C23_NoName == <<"N","o","d","e"," ","h","a","s"," ","n","o"," ","n","a","m","e">>

\* C23: a node with a resolvable parent and neither a name field nor a name
\* property contributes the last segment of its reference to the resolved
\* path; no resolution fails for lack of a name.
C23_NamelessContributes ==
    /\ (op = "getChildren" /\ callRef = S_refN /\ pc = "path_query")
          => resolved = C23_PathN
    /\ outcome.status = "error" => ~includes(outcome.error, C23_NoName)

C24_CannotResolve == <<"C","a","n","n","o","t"," ","r","e","s","o","l","v","e"," ","p","a","r","e","n","t"," ","f","o","r"," ","n","o","d","e","R","e","f",":"," ">>
C24_ParentWord == <<"p","a","r","e","n","t">>

\* no strategy yields a parent: the parent field, the parentNodeRef field,
\* the parent properties, the aspect marker, an association whose type
\* contains 'parent'
C24_NoParent(n) ==
    /\ ~Truthy(n.parent)
    /\ ~Truthy(n.parentNodeRef)
    /\ ~Truthy(PropGet(n.properties, S_cmParent))
    /\ ~Truthy(PropGet(n.properties, S_cmParentAssoc))
    /\ ~Truthy(n.aspectParent)
    /\ \A i \in 1..Len(n.associations) :
          ~(/\ Truthy(n.associations[i].associationType)
            /\ includes(n.associations[i].associationType, C24_ParentWord)
            /\ Truthy(n.associations[i].target))

\* the lookup of `cur` being answered in this step fetches a node that is
\* not a root and has no parent
C24_FetchesOrphan ==
    /\ pc = "rp_get"
    /\ Len(sent') = Len(sent) + 1
    /\ "rp_get" \notin faults'
    /\ \E n \in RepoGet(cur) :
          /\ ~C21_MarkedRoot(cur, n, chRef)
          /\ ~endsWith(n.nodeRef, S_rootSuffix)
          /\ C24_NoParent(n)

\* C24: when the node fetched by a path resolution is not a root and shows
\* no parent by any strategy, the call fails with 'Cannot resolve parent for
\* nodeRef: ' followed by that node's reference, sends nothing more (no
\* lookup, no path query) and returns no records.
C24_OrphanFails ==
    [][C24_FetchesOrphan =>
          /\ pc' = "idle"
          /\ outcome'.status = "error"
          /\ outcome'.records = <<>>
          /\ includes(outcome'.error, C24_CannotResolve \o cur)
          /\ IsGet(sent'[Len(sent')])]_vars

\* the call for P has failed at the lookup of its parent O
C24_Witness ==
    /\ pc = "idle"
    /\ op = "getChildren"
    /\ callRef = S_refP
    /\ outcome.status = "error"
    /\ includes(outcome.error, C24_CannotResolve \o S_refO)
    /\ Len(sent) > 0
    /\ IsGet(sent[Len(sent)])
    /\ sent[Len(sent)].arg = S_refO

C25_FetchFailed == <<"F","a","i","l","e","d"," ","t","o"," ","f","e","t","c","h"," ","n","o","d","e"," ","f","o","r"," ","n","o","d","e","R","e","f",":"," ">>

\* the lookup of `cur` fails in this step
C25_LookupFails ==
    /\ pc = "rp_get"
    /\ Len(sent') = Len(sent) + 1
    /\ "rp_get" \in faults'

\* C25: when the single-node lookup fails at any depth of a path
\* resolution, the call fails with 'Failed to fetch node for nodeRef: '
\* followed by the reference whose lookup failed; the call has sent no
\* children path query and returns no records.
C25_FetchFailureFailsAll ==
    [][C25_LookupFails =>
          /\ pc' = "idle"
          /\ outcome'.status = "error"
          /\ outcome'.records = <<>>
          /\ includes(outcome'.error, C25_FetchFailed \o cur)
          /\ \A i \in 1..Len(sent') : ~IsChildrenQuery(sent'[i])]_vars

\* the call for F3 has failed at the lookup of its grandparent F1
C25_Witness ==
    /\ pc = "idle"
    /\ op = "getChildren"
    /\ callRef = S_refF3
    /\ "rp_get" \in faults
    /\ outcome.status = "error"
    /\ includes(outcome.error, C25_FetchFailed \o S_refF1)
    /\ Cardinality(Positions(IsGet)) = 3

-----------------------------------------------------------------------------
(* Tickets and security headers.                                            *)

\* C26: whenever control can pass between overlapping authenticate() calls
\* on one AlfrescoClient, the ticket stored on the client is the ticket
\* installed on its repository service and on its content service.
C26_TicketsAgree ==
    /\ svc["repo"].ticket = ticket
    /\ svc["content"].ticket = ticket

\* two logins have completed and a third call is still waiting for its own
C26_Witness ==
    /\ \E a, b, c \in AuthCalls :
          /\ a # b
          /\ aProc[a] = "done"
          /\ aProc[b] = "done"
          /\ aProc[c] = "login"
    /\ ticket = 2
    /\ svc["repo"].header = 2
    /\ svc["content"].ticket = 2

\* C27: under any interleaving of init() and setTicket(ticket, username) on
\* one service, once the service holds a handle, a username and a ticket,
\* the WS-Security header of the handle held carries the ticket set last;
\* call() sends through the handle held, so a request sent then carries it.
C27_HeaderCarriesLatestTicket ==
    (sClient # 0 /\ sUsername /\ sTicket # 0) => sHeader[sClient] = sTicket

\* two init() calls have each created a handle, the ticket was replaced
\* after the second, and a request has gone out through the handle held
C27_Witness ==
    /\ sCreated = 2
    /\ sClient = 2
    /\ sTicket = 2
    /\ sHeader = <<1, 2>>
    /\ 2 \in sUsed

\* the login of the authenticate() awaited at `pc` fails in this step
C28_LoginFails ==
    /\ pc \in AuthPcs
    /\ pc \in faults'

\* C28: when the login inside authenticate() fails, authenticate() fails,
\* and the client's ticket and the tickets and security headers of its
\* repository and content services are what they were before the call.
C28_FailedLoginChangesNothing ==
    [][C28_LoginFails =>
          /\ pc' = "idle"
          /\ outcome'.status = "error"
          /\ ticket' = ticket
          /\ svc'["repo"] = svc["repo"]
          /\ svc'["content"] = svc["content"]]_vars

\* a login request has failed on a client that held ticket 1, whose
\* repository service has a handle with that ticket in its header
C28_Witness ==
    /\ pc = "idle"
    /\ outcome.status = "error"
    /\ faults \cap AuthPcs # {}
    /\ Len(sent) > 1
    /\ IsLogin(sent[Len(sent)])
    /\ ticket = 1
    /\ svc["repo"].ticket = 1
    /\ svc["repo"].header = 1

-----------------------------------------------------------------------------
(* The child listing of the class AlfrescoClient.                           *)

IsChildListing(q) == q.svc = "repo" /\ q.method = "queryChildren"

\* this step sends the child-listing request
C29_SendsChildListing ==
    /\ Len(sent') = Len(sent) + 1
    /\ IsChildListing(sent'[Len(sent')])

\* this step is a root lookup that rejects or yields no root reference
C29_RootLookupFails ==
    /\ pc = "ch_query"
    /\ \/ "ch_query" \in faults'
       \/ outcome'.error \in RootNotFound

\* C29: getChildren of the class AlfrescoClient sends the child-listing
\* request only after a login and a root lookup of the same call that
\* yielded a root reference; when the root lookup fails or yields no usable
\* reference the call fails without ever sending the child-listing request.
C29_ChildListingAfterRootLookup ==
    [][(revision = "directOnly" /\ op = "getChildren") =>
          /\ C29_SendsChildListing =>
                /\ \E j \in 1..Len(sent) : IsLogin(sent[j])
                /\ \E k \in 1..Len(sent) : IsRootLookup(sent[k])
                /\ "ch_query" \notin faults
                /\ Truthy(chRef)
                /\ ~IsRootRef(callRef, chRef)
          /\ C29_RootLookupFails =>
                /\ pc' = "idle"
                /\ outcome'.status = "error"
                /\ outcome'.records = <<>>
                /\ \A i \in 1..Len(sent') : ~IsChildListing(sent'[i])]_vars

\* a child listing of F1 has returned after two logins and the root lookup
C29_Witness ==
    /\ revision = "directOnly"
    /\ op = "getChildren"
    /\ callRef = S_refF1
    /\ pc = "idle"
    /\ outcome.status = "ok"
    /\ Len(sent) = 4
    /\ IsLogin(sent[1])
    /\ IsRootLookup(sent[3])
    /\ IsChildListing(sent[4])

-----------------------------------------------------------------------------
(* The sidebar of the example page.                                         *)

\* the stack is a path of the repository tree that starts at the root
\* selected in the header
C30_StackIsPathFromRoot ==
    /\ nodeStack[1] = selectedRoot
    /\ \A i \in 2..Len(nodeStack) : nodeStack[i] \in ChildrenOf(nodeStack[i - 1])

\* C30: whenever no children request is in flight, the navigation stack is
\* empty or starts at the selected root with every later entry a child of
\* the entry before it, and the listed children are those of its last
\* entry, whatever the order in which overlapping requests were answered.
C30_StackConsistent ==
    (inFlight = {} /\ nodeStack # <<>>) =>
        /\ C30_StackIsPathFromRoot
        /\ children = ChildrenOf(nodeStack[Len(nodeStack)])
=============================================================================
